---- MODULE Spec2Model ----
(***************************************************************************)
(* Model of the analysis orchestrator of web_analyzer:                     *)
(*   backend/api/routes.py          process_analysis, stream_progress      *)
(*   backend/utils/progress_tracker.py  ProgressTracker                    *)
(*   backend/utils/storage.py       DatabaseStore                          *)
(*   backend/services/scraper.py    WebScraper.scrape_multiple             *)
(*   backend/services/knowledge_graph.py  generate_graph (domain nodes)    *)
(*   backend/services/topical_map.py      generate_multiple                *)
(*   backend/services/comparator.py       Comparator                       *)
(*   backend/services/ai_service.py       AIService (extract_json, repair) *)
(*   backend/services/sitemap_service.py  SitemapService                   *)
(* One analysis is submitted; its background run interleaves with the      *)
(* progress streams (observers) of that analysis.                          *)
(***************************************************************************)
EXTENDS Integers, Sequences, FiniteSets, TLC

\* Largest number of URLs in one request (the code allows up to 5).
MaxUrls == 3

\* Number of progress streams of the analysis that may be open at a time.
NumObservers == 2

\* total_steps passed to progress_tracker.create.
TotalSteps == 5

Observers == 1..NumObservers

\* Outcomes of the AI comparison request (ai_service.extract_json and the
\* construction of ComparisonData inside the try block).
AiOutcomes == {"ok", "gateway_error", "extraction_error", "invalid_shape"}

\* Outcomes of one DatabaseStore.update_analysis call: it returns, it raises
\* before the commit took effect, or it raises after the commit (db.refresh).
DbOutcomes == {"ok", "raise_before_commit", "raise_after_commit"}

VARIABLES
    urls,            \* the request's URL list (URL identifiers)
    record,          \* the Analysis row of this analysis
    progress,        \* ProgressTracker._progress[analysis_id]: <<>> or <<state>>
    pc,              \* position of the process_analysis run
    scraped_data,    \* local of process_analysis
    knowledge_graph, \* local of process_analysis: labels of the domain nodes
    topical_maps,    \* local of process_analysis
    comparison,      \* local of process_analysis: <<>> (None) or <<ComparisonData>>
    exc,             \* the exception caught by process_analysis: <<>> or <<message>>
    obs,             \* per stream: position of its event_generator (idle: not open)
    tmMapped,        \* history: URLs whose topical-map generation returned a map
    aiOutcome,       \* history: outcome of the AI comparison request, "none" if not made
    dbCalls,         \* history: the update_analysis calls issued, with their outcomes
    stepLog,         \* history: the writes that landed in the current progress state
    lastCall,        \* history: the last ProgressTracker write the run issued
    lostWrite,       \* history: a write of the run found the progress state discarded
    call             \* the service call under study outside the run: inputs and result

vars == <<urls, record, progress, pc, scraped_data, knowledge_graph, topical_maps,
          comparison, exc, obs, tmMapped, aiOutcome, dbCalls, stepLog, lastCall,
          lostWrite, call>>

\* No service call is under study.
NoCall == [op |-> "none"]

----------------------------------------------------------------------------
(* Helpers *)

Min(a, b) == IF a < b THEN a ELSE b

Range(s) == {s[i] : i \in 1..Len(s)}

\* urlparse(url).netloc.replace('www.', ''): URL identifiers 1 and 2 are two
\* pages of one site, every later identifier is a site of its own.
domain_of(url) == IF url <= 2 THEN 1 ELSE url - 1

----------------------------------------------------------------------------
(* ProgressTracker *)

\* int((step / total_steps) * 100)
percentage_of(step, total_steps) == (step * 100) \div total_steps

create(total_steps) ==
    << [current_step |-> 0, total_steps |-> total_steps,
        status |-> "starting", percentage |-> 0] >>

\* update without the `analysis_id not in self._progress` return: the write
\* creates the missing state.
update_recreates(p, step, status) ==
    << [current_step |-> step, total_steps |-> TotalSteps, status |-> status,
        percentage |-> percentage_of(step, TotalSteps)] >>

update(p, step, status) ==
    IF p = <<>> THEN p
    ELSE << [p[1] EXCEPT !.current_step = step,
                         !.status = status,
                         !.percentage = percentage_of(step, p[1].total_steps)] >>

complete(p) ==
    IF p = <<>> THEN p
    ELSE << [p[1] EXCEPT !.current_step = p[1].total_steps,
                         !.status = "complete",
                         !.percentage = 100] >>

\* fail that also resets the step index.
fail_resets(p) ==
    IF p = <<>> THEN p
    ELSE << [p[1] EXCEPT !.status = "failed", !.current_step = 0,
                         !.percentage = 0] >>

fail(p) ==
    IF p = <<>> THEN p
    ELSE << [p[1] EXCEPT !.status = "failed"] >>

cleanup(p) == <<>>

----------------------------------------------------------------------------
(* DatabaseStore *)

create_analysis(request_urls) ==
    [urls |-> request_urls, status |-> "processing", error |-> "",
     scraped_data |-> <<>>, knowledge_graph |-> <<>>,
     topical_maps |-> <<>>, comparison |-> <<>>]

\* data is a record; its fields overwrite the row's, and the status becomes
\* completed unless data carries a status.
update_analysis(rec, data) ==
    [k \in DOMAIN rec |->
        IF k \in DOMAIN data THEN data[k]
        ELSE IF k = "status" THEN "completed"
        ELSE rec[k]]

----------------------------------------------------------------------------
(* Services *)

\* acquired is the set of URLs whose scrape_url returns status success.
scrape_multiple(request_urls, acquired) ==
    [i \in 1..Len(request_urls) |->
        [url |-> request_urls[i],
         status |-> IF request_urls[i] \in acquired THEN "success" ELSE "error"]]

IsSuccess(data) == data.status = "success"

\* The URLs of the entries of a scraped-data list with status success.
Acquired(sd) == {sd[i].url : i \in {j \in 1..Len(sd) : IsSuccess(sd[j])}}

\* The labels of the domain nodes, in the order the domain groups are created.
RECURSIVE domain_groups(_)
domain_groups(sd) ==
    IF sd = <<>> THEN <<>>
    ELSE LET front == domain_groups(SubSeq(sd, 1, Len(sd) - 1))
             data == sd[Len(sd)]
         IN  IF ~IsSuccess(data) \/ domain_of(data.url) \in Range(front)
             THEN front
             ELSE Append(front, domain_of(data.url))

generate_graph(sd) == domain_groups(sd)

\* generate_multiple gathering without return_exceptions: the first exception
\* of a task propagates.
generate_multiple_strict(sd, mapped) ==
    LET tasks == SelectSeq(sd, IsSuccess)
    IN  IF \E i \in 1..Len(tasks) : tasks[i].url \notin mapped
        THEN [raised |-> TRUE, error |-> "topical map generation failed",
              value |-> <<>>]
        ELSE [raised |-> FALSE, error |-> "",
              value |-> [i \in 1..Len(tasks) |-> [url |-> tasks[i].url]]]

\* mapped is the set of URLs whose generate_topical_map_with_ai returns a map;
\* for the others it raises.
generate_multiple(sd, mapped) ==
    LET tasks == SelectSeq(sd, IsSuccess)
        returned == SelectSeq(tasks, LAMBDA d : d.url \in mapped)
        successful_results == [i \in 1..Len(returned) |-> [url |-> returned[i].url]]
    IN  IF tasks # <<>>
        THEN IF successful_results = <<>>
             THEN [raised |-> TRUE, error |-> "All topical map generations failed",
                   value |-> <<>>]
             ELSE [raised |-> FALSE, error |-> "", value |-> successful_results]
        ELSE [raised |-> FALSE, error |-> "", value |-> <<>>]

\* for data, tmap in zip(scraped_data_list, topical_maps):
\*     if data.get('status') != 'success': continue
\* Each kept entry carries the URL of the scraped data and the URL of the map
\* it was zipped with.
zip_success(sd, tm) ==
    LET n == Min(Len(sd), Len(tm))
        zipped == [i \in 1..n |-> [url |-> sd[i].url, status |-> sd[i].status,
                                   map_url |-> tm[i].url]]
        kept == SelectSeq(zipped, IsSuccess)
    IN  [i \in 1..Len(kept) |-> [url |-> kept[i].url, map_url |-> kept[i].map_url]]

_fallback_comparison(sd, tm) ==
    [kind |-> "fallback",
     websites |-> zip_success(sd, tm),
     business_models |-> {tm[i].url : i \in 1..Len(tm)},
     technology_stack |-> Acquired(sd)]

\* compare_websites_with_ai catching the extraction error only: any other
\* failure of the request propagates.
compare_websites_with_ai_narrow(sd, tm, ai) ==
    IF Len(sd) < 2
    THEN [raised |-> FALSE, error |-> "", called |-> FALSE, value |-> <<>>]
    ELSE IF ai = "ok"
         THEN [raised |-> FALSE, error |-> "", called |-> TRUE,
               value |-> << [kind |-> "ai", websites |-> zip_success(sd, tm),
                             business_models |-> {}, technology_stack |-> {}] >>]
         ELSE IF ai = "extraction_error"
              THEN [raised |-> FALSE, error |-> "", called |-> TRUE,
                    value |-> << _fallback_comparison(sd, tm) >>]
              ELSE [raised |-> TRUE, error |-> ai, called |-> TRUE, value |-> <<>>]

\* ai is the outcome of the AI request.  The reply of a successful request is
\* not constrained by the code: only the websites_data sent to it is kept.
compare_websites_with_ai(sd, tm, ai) ==
    IF Len(sd) < 2
    THEN [raised |-> FALSE, error |-> "", called |-> FALSE, value |-> <<>>]
    ELSE IF ai = "ok"
         THEN [raised |-> FALSE, error |-> "", called |-> TRUE,
               value |-> << [kind |-> "ai", websites |-> zip_success(sd, tm),
                             business_models |-> {}, technology_stack |-> {}] >>]
         ELSE \* except Exception: every failure of the try block lands here
              [raised |-> FALSE, error |-> "", called |-> TRUE,
               value |-> << _fallback_comparison(sd, tm) >>]

compare_websites(sd, tm, ai) == compare_websites_with_ai(sd, tm, ai)

----------------------------------------------------------------------------
(* State after analyze_urls: the row is created and the run is queued *)

Init ==
    /\ \E n \in 1..MaxUrls : urls = [i \in 1..n |-> i]
    /\ record = create_analysis(urls)
    /\ progress = <<>>
    /\ pc = "queued"
    /\ scraped_data = <<>>
    /\ knowledge_graph = <<>>
    /\ topical_maps = <<>>
    /\ comparison = <<>>
    /\ exc = <<>>
    /\ obs = [o \in Observers |-> "idle"]
    /\ tmMapped = {}
    /\ aiOutcome = "none"
    /\ dbCalls = <<>>
    /\ stepLog = <<>>
    /\ lastCall = "none"
    /\ lostWrite = FALSE
    /\ call = NoCall

----------------------------------------------------------------------------
(* process_analysis *)

\* One ProgressTracker write: the state becomes p, and the write is logged
\* when it landed (the state exists after it).
ProgressWrite(op, p) ==
    /\ progress' = p
    /\ lastCall' = op
    /\ lostWrite' = (lostWrite \/ p = <<>>)
    /\ stepLog' = IF p = <<>> THEN stepLog
                  ELSE Append(stepLog, [op |-> op, step |-> p[1].current_step,
                                        status |-> p[1].status,
                                        percentage |-> p[1].percentage])

Create ==
    /\ pc = "queued"
    /\ UNCHANGED call
    /\ ProgressWrite("create", create(TotalSteps))
    /\ pc' = "update_scraping"
    /\ UNCHANGED <<urls, record, scraped_data, knowledge_graph, topical_maps,
                   comparison, exc, obs, tmMapped, aiOutcome, dbCalls>>

UpdateScraping ==
    /\ pc = "update_scraping"
    /\ UNCHANGED call
    /\ ProgressWrite("update", update(progress, 1, "scraping"))
    /\ pc' = "scrape"
    /\ UNCHANGED <<urls, record, scraped_data, knowledge_graph, topical_maps,
                   comparison, exc, obs, tmMapped, aiOutcome, dbCalls>>

Scrape ==
    /\ pc = "scrape"
    /\ UNCHANGED call
    /\ \E acquired \in SUBSET Range(urls) :
          scraped_data' = scrape_multiple(urls, acquired)
    /\ pc' = "update_knowledge_graph"
    /\ UNCHANGED <<urls, record, progress, knowledge_graph, topical_maps,
                   comparison, exc, obs, tmMapped, aiOutcome, dbCalls,
                   stepLog, lastCall, lostWrite>>

UpdateKnowledgeGraph ==
    /\ pc = "update_knowledge_graph"
    /\ UNCHANGED call
    /\ ProgressWrite("update", update(progress, 2, "knowledge_graph"))
    /\ pc' = "generate_graph"
    /\ UNCHANGED <<urls, record, scraped_data, knowledge_graph, topical_maps,
                   comparison, exc, obs, tmMapped, aiOutcome, dbCalls>>

GenerateGraph ==
    /\ pc = "generate_graph"
    /\ UNCHANGED call
    /\ knowledge_graph' = generate_graph(scraped_data)
    /\ pc' = "update_topical_map"
    /\ UNCHANGED <<urls, record, progress, scraped_data, topical_maps,
                   comparison, exc, obs, tmMapped, aiOutcome, dbCalls,
                   stepLog, lastCall, lostWrite>>

UpdateTopicalMap ==
    /\ pc = "update_topical_map"
    /\ UNCHANGED call
    /\ ProgressWrite("update", update(progress, 3, "topical_map"))
    /\ pc' = "generate_multiple"
    /\ UNCHANGED <<urls, record, scraped_data, knowledge_graph, topical_maps,
                   comparison, exc, obs, tmMapped, aiOutcome, dbCalls>>

GenerateMultiple ==
    /\ pc = "generate_multiple"
    /\ UNCHANGED call
    /\ \E mapped \in SUBSET Acquired(scraped_data) :
          LET r == generate_multiple(scraped_data, mapped)
          IN  /\ tmMapped' = mapped
              /\ IF r.raised
                 THEN /\ exc' = << r.error >>
                      /\ pc' = "except"
                      /\ UNCHANGED topical_maps
                 ELSE /\ topical_maps' = r.value
                      /\ pc' = "update_comparison"
                      /\ UNCHANGED exc
    /\ UNCHANGED <<urls, record, progress, scraped_data, knowledge_graph,
                   comparison, obs, aiOutcome, dbCalls, stepLog, lastCall, lostWrite>>

\* Both branches of `if len(urls) >= 2` write step 4.
UpdateComparison ==
    /\ pc = "update_comparison"
    /\ UNCHANGED call
    /\ ProgressWrite("update", update(progress, 4, "comparison"))
    /\ pc' = IF Len(urls) >= 2 THEN "compare" ELSE "update_finalizing"
    /\ UNCHANGED <<urls, record, scraped_data, knowledge_graph, topical_maps,
                   comparison, exc, obs, tmMapped, aiOutcome, dbCalls>>

Compare ==
    /\ pc = "compare"
    /\ UNCHANGED call
    /\ \E ai \in AiOutcomes :
          LET r == compare_websites(scraped_data, topical_maps, ai)
          IN  /\ aiOutcome' = IF r.called THEN ai ELSE "none"
              /\ IF r.raised
                 THEN /\ exc' = << r.error >>
                      /\ pc' = "except"
                      /\ UNCHANGED comparison
                 ELSE /\ comparison' = r.value
                      /\ pc' = "update_finalizing"
                      /\ UNCHANGED exc
    /\ UNCHANGED <<urls, record, progress, scraped_data, knowledge_graph,
                   topical_maps, obs, tmMapped, dbCalls, stepLog, lastCall, lostWrite>>

UpdateFinalizing ==
    /\ pc = "update_finalizing"
    /\ UNCHANGED call
    /\ ProgressWrite("update", update(progress, 5, "finalizing"))
    /\ pc' = "store_results"
    /\ UNCHANGED <<urls, record, scraped_data, knowledge_graph, topical_maps,
                   comparison, exc, obs, tmMapped, aiOutcome, dbCalls>>

\* The row after one update_analysis call with the given outcome.
Stored(rec, data, outcome) ==
    IF outcome = "raise_before_commit" THEN rec ELSE update_analysis(rec, data)

result_data ==
    [scraped_data |-> << scraped_data >>,
     knowledge_graph |-> << knowledge_graph >>,
     topical_maps |-> << topical_maps >>,
     comparison |-> comparison]

StoreResults ==
    /\ pc = "store_results"
    /\ UNCHANGED call
    /\ \E outcome \in DbOutcomes :
          /\ record' = Stored(record, result_data, outcome)
          /\ dbCalls' = Append(dbCalls, [data |-> "result", outcome |-> outcome])
          /\ IF outcome = "ok"
             THEN pc' = "complete" /\ UNCHANGED exc
             ELSE pc' = "except" /\ exc' = << "database error" >>
    /\ UNCHANGED <<urls, progress, scraped_data, knowledge_graph, topical_maps,
                   comparison, obs, tmMapped, aiOutcome, stepLog, lastCall, lostWrite>>

Complete ==
    /\ pc = "complete"
    /\ UNCHANGED call
    /\ ProgressWrite("complete", complete(progress))
    /\ pc' = "done"
    /\ UNCHANGED <<urls, record, scraped_data, knowledge_graph, topical_maps,
                   comparison, exc, obs, tmMapped, aiOutcome, dbCalls>>

\* except Exception as e: progress_tracker.fail(analysis_id, str(e))
Fail ==
    /\ pc = "except"
    /\ UNCHANGED call
    /\ ProgressWrite("fail", fail(progress))
    /\ pc' = "store_failure"
    /\ UNCHANGED <<urls, record, scraped_data, knowledge_graph, topical_maps,
                   comparison, exc, obs, tmMapped, aiOutcome, dbCalls>>

failure_data == [status |-> "failed", error |-> exc[1]]

\* The inner try: an exception of this update is printed and dropped.
StoreFailure ==
    /\ pc = "store_failure"
    /\ UNCHANGED call
    /\ \E outcome \in DbOutcomes :
          /\ record' = Stored(record, failure_data, outcome)
          /\ dbCalls' = Append(dbCalls, [data |-> "failure", outcome |-> outcome])
    /\ pc' = "done"
    /\ UNCHANGED <<urls, progress, scraped_data, knowledge_graph, topical_maps,
                   comparison, exc, obs, tmMapped, aiOutcome, stepLog, lastCall, lostWrite>>

Run ==
    \/ Create \/ UpdateScraping \/ Scrape \/ UpdateKnowledgeGraph
    \/ GenerateGraph \/ UpdateTopicalMap \/ GenerateMultiple
    \/ UpdateComparison \/ Compare \/ UpdateFinalizing \/ StoreResults
    \/ Complete \/ Fail \/ StoreFailure

----------------------------------------------------------------------------
(* stream_progress.event_generator *)

ObsUnchanged ==
    UNCHANGED <<urls, record, pc, scraped_data, knowledge_graph, topical_maps,
                comparison, exc, tmMapped, aiOutcome, dbCalls, lastCall, lostWrite,
                call>>

Connect(o) ==
    /\ obs[o] = "idle"
    /\ obs' = [obs EXCEPT ![o] = "streaming"]
    /\ UNCHANGED <<progress, stepLog>>
    /\ ObsUnchanged

\* One pass of the polling loop with the client still connected: the stream
\* ends once the state read is complete or failed, and goes on otherwise
\* (also when there is no state, which sends a waiting message).
Poll(o) ==
    /\ obs[o] = "streaming"
    /\ obs' = IF progress # <<>> /\ progress[1].status \in {"complete", "failed"}
              THEN [obs EXCEPT ![o] = "grace"]
              ELSE obs
    /\ UNCHANGED <<progress, stepLog>>
    /\ ObsUnchanged

\* request.is_disconnected() or the cancellation of the generator.
Disconnect(o) ==
    /\ obs[o] = "streaming"
    /\ obs' = [obs EXCEPT ![o] = "grace"]
    /\ UNCHANGED <<progress, stepLog>>
    /\ ObsUnchanged

\* finally: await asyncio.sleep(5); await progress_tracker.cleanup(analysis_id)
\* The generator is over; a later request opens a new stream.
Cleanup(o) ==
    /\ obs[o] = "grace"
    /\ progress' = cleanup(progress)
    /\ stepLog' = <<>>
    /\ obs' = [obs EXCEPT ![o] = "idle"]
    /\ ObsUnchanged

Observe == \E o \in Observers : Connect(o) \/ Poll(o) \/ Disconnect(o) \/ Cleanup(o)

----------------------------------------------------------------------------

Next == Run \/ Observe

Spec == Init /\ [][Next]_vars

\* The background task is scheduled by the event loop and every step of it
\* returns (the collaborators time out), so the run always takes its next step.
FairSpec == Spec /\ WF_vars(Run)

----------------------------------------------------------------------------
(* Vocabulary of the properties *)

Done == pc = "done"

Terminal == {"completed", "failed"}

\* Some update_analysis call of the run raised.
DbFault == \E i \in 1..Len(dbCalls) : dbCalls[i].outcome # "ok"

\* The run is past generate_multiple (or was ended by it).
Classified == pc \in {"update_comparison", "compare", "update_finalizing",
                      "store_results", "complete", "except", "store_failure", "done"}
              /\ scraped_data # <<>>

\* The targets whose acquisition and topical-map generation both succeeded.
Succeeded == tmMapped

\* The targets that failed at acquisition or at topical-map generation.
FailedTargets == Range(urls) \ Succeeded

MapUrls(tm) == {tm[i].url : i \in 1..Len(tm)}

----------------------------------------------------------------------------
(* Orchestrator outcome *)

\* C1: a run in which every acquisition fails ends with record status failed
\* and a non-empty error cause (update_analysis not raising).
C1_TotalFailureEndsFailed ==
    (Done /\ Acquired(scraped_data) = {} /\ ~DbFault)
        => (record.status = "failed" /\ record.error # "")

\* C2: a run in which at least one target is acquired and gets its topical
\* map ends with record status completed, whichever other targets fail at
\* acquisition or at topical-map generation (update_analysis not raising).
C2_PartialSuccessCompletes ==
    (Done /\ Succeeded # {} /\ ~DbFault) => record.status = "completed"

\* A completed run of three targets: one succeeded, one failed at
\* acquisition, one failed at topical-map generation.
C2_Witness ==
    /\ Done /\ ~DbFault
    /\ Succeeded # {}
    /\ Range(urls) \ Acquired(scraped_data) # {}
    /\ Acquired(scraped_data) \ Succeeded # {}
    /\ record.status = "completed"

\* C3: when only acquisitions fail and at least 2 targets succeed, the
\* comparison is computed over exactly the succeeded targets, each paired with
\* the topical map of its own URL.
C3_ComparisonOverSucceeded ==
    (comparison # <<>> /\ Succeeded = Acquired(scraped_data)
                      /\ Cardinality(Succeeded) >= 2)
        => LET websites == comparison[1].websites
           IN  /\ \A i \in 1..Len(websites) : websites[i].map_url = websites[i].url
               /\ {websites[i].url : i \in 1..Len(websites)} = Succeeded

\* C4: when a run completes with some targets failed, a failed target has no
\* entry in the persisted scraped data, no domain node of its own in the
\* persisted knowledge graph and no persisted topical map.
C4_PersistedOnlySucceeded ==
    (Done /\ record.status = "completed" /\ Succeeded # {} /\ ~DbFault)
        => \A u \in FailedTargets :
              /\ \A i \in 1..Len(record.scraped_data[1]) :
                    record.scraped_data[1][i].url # u
              /\ u \notin MapUrls(record.topical_maps[1])
              /\ domain_of(u) \in Range(record.knowledge_graph[1])
                    => \E v \in Succeeded : domain_of(v) = domain_of(u)

\* C5: a comparison is requested and stored only if at least 2 targets
\* succeeded; otherwise no comparison step runs and the stored comparison
\* stays empty.
C5_ComparisonNeedsTwoSucceeded ==
    (Classified /\ Cardinality(Succeeded) < 2)
        => (aiOutcome = "none" /\ comparison = <<>> /\ record.comparison = <<>>)

----------------------------------------------------------------------------
(* Persistence *)

\* C6: the record starts as processing, no second update_analysis call is
\* issued for it by the run, also when an update raises, and its status never
\* changes again once it has left processing.
C6_SingleUpdate ==
    /\ [](Len(dbCalls) <= 1)
    /\ [][record.status # "processing" => record'.status = record.status]_vars

----------------------------------------------------------------------------
(* Progress state *)

\* C7: the step indices written to the progress state are non-decreasing and
\* within 0..total_steps; the last write of a finished run is complete, with
\* the step index at total_steps and percentage 100, or fail, which leaves
\* the step index where it was.
C7_ProgressMonotone ==
    /\ \A i \in 1..Len(stepLog) : stepLog[i].step \in 0..TotalSteps
    /\ \A i \in 1..Len(stepLog) : \A j \in i..Len(stepLog) :
          stepLog[i].step <= stepLog[j].step
    /\ \A i \in 1..Len(stepLog) :
          /\ stepLog[i].op = "complete"
                => /\ i = Len(stepLog)
                   /\ stepLog[i].status = "complete"
                   /\ stepLog[i].step = TotalSteps
                   /\ stepLog[i].percentage = 100
          /\ stepLog[i].op = "fail"
                => /\ i = Len(stepLog) /\ i > 1
                   /\ stepLog[i].status = "failed"
                   /\ stepLog[i].step = stepLog[i-1].step
                   /\ stepLog[i].percentage = stepLog[i-1].percentage
    /\ Done => lastCall \in {"complete", "fail"}
    /\ (Done /\ progress # <<>>)
          => /\ stepLog # <<>>
             /\ stepLog[Len(stepLog)].op = lastCall
             /\ progress[1].status \in {"complete", "failed"}
             /\ progress[1].current_step = stepLog[Len(stepLog)].step

\* A run that failed at topical-map generation: fail landed at step 3.
C7_Witness ==
    /\ Done
    /\ stepLog # <<>>
    /\ stepLog[Len(stepLog)].op = "fail"
    /\ stepLog[Len(stepLog)].step = 3
    /\ progress # <<>> /\ progress[1].status = "failed"

\* C8: every run ends, with a terminal record status when update_analysis
\* does not raise, under every interleaving of stream connects, disconnects
\* and cleanups: a step of a stream leaves the run where it is, and a write of
\* the run to a discarded progress state (update, complete, fail) does not
\* recreate the state.
C8_RunsToCompletion ==
    /\ <>Done
    /\ []((Done /\ ~DbFault) => record.status \in Terminal)
    /\ [][obs' # obs => (pc' = pc /\ record' = record /\ exc' = exc)]_vars
    /\ [][(pc' # pc /\ pc # "queued" /\ progress = <<>>) => progress' = <<>>]_vars

\* A finished run whose progress state was discarded before its last write:
\* complete was issued and did not land, and the record is completed.
C8_Witness ==
    /\ Done
    /\ record.status = "completed"
    /\ lastCall = "complete"
    /\ progress = <<>>
    /\ lostWrite

\* C9: the progress state is never discarded while an observer of the
\* analysis is still streaming.
C9_NoDiscardWhileStreaming ==
    [][(progress # <<>> /\ progress' = <<>>)
          => \A o \in Observers : obs'[o] # "streaming"]_vars

----------------------------------------------------------------------------
(* Comparison fallback *)

\* C10: when the AI comparison request fails (gateway error, extraction
\* error or invalid result shape), compare_websites returns the fallback
\* comparison built from the topical maps, no exception reaches
\* process_analysis, and the run ends completed (update_analysis not raising).
C10_ComparisonFailureFallsBack ==
    aiOutcome \in AiOutcomes \ {"ok"}
        => /\ comparison # <<>>
           /\ comparison[1].kind = "fallback"
           /\ comparison[1].business_models = MapUrls(topical_maps)
           /\ (exc # <<>> => DbFault)
           /\ (Done /\ ~DbFault) => record.status = "completed"

\* A completed run of at least 2 succeeded targets whose AI comparison hit a
\* gateway error: the fallback comparison over their maps is stored.
C10_Witness ==
    /\ Done
    /\ aiOutcome = "gateway_error"
    /\ Cardinality(Succeeded) >= 2
    /\ record.status = "completed"
    /\ record.comparison # <<>>
    /\ record.comparison[1].kind = "fallback"
    /\ record.comparison[1].business_models = Succeeded

----------------------------------------------------------------------------
(* Fallback comparison: the similarity matrix *)

\* No analysis was requested: the variables of the run are at rest while a
\* service call is studied on its own.
AtRest ==
    /\ urls = <<>>
    /\ record = create_analysis(<<>>)
    /\ progress = <<>>
    /\ pc = "done"
    /\ scraped_data = <<>>
    /\ knowledge_graph = <<>>
    /\ topical_maps = <<>>
    /\ comparison = <<>>
    /\ exc = <<>>
    /\ obs = [o \in Observers |-> "idle"]
    /\ tmMapped = {}
    /\ aiOutcome = "none"
    /\ dbCalls = <<>>
    /\ stepLog = <<>>
    /\ lastCall = "none"
    /\ lostWrite = FALSE

RunUnchanged ==
    UNCHANGED <<urls, record, progress, pc, scraped_data, knowledge_graph,
                topical_maps, comparison, exc, obs, tmMapped, aiOutcome,
                dbCalls, stepLog, lastCall, lostWrite>>

NumTopics == 4
TopicCap == 10
DefaultSimilarity == 30

Topics == 1..NumTopics

\* The list of the members of a set of topics, in ascending order.
RECURSIVE topic_list(_)
topic_list(S) ==
    IF S = {} THEN <<>>
    ELSE LET m == CHOOSE x \in S : \A y \in S : y <= x
         IN  Append(topic_list(S \ {m}), m)

\* The key_topics lists a topical map is given here.
KeyTopicLists == {topic_list(S) : S \in SUBSET Topics}

\* s[:n]
Take(s, n) == SubSeq(s, 1, Min(n, Len(s)))

\* round(intersection / union, 2) in hundredths: round half to even.
round_2(intersection, union) ==
    LET q == (100 * intersection) \div union
        r == (100 * intersection) % union
    IN  IF 2 * r < union THEN q
        ELSE IF 2 * r > union THEN q + 1
        ELSE IF q % 2 = 0 THEN q ELSE q + 1

\* The topical maps of generate_multiple with the key_topics of each.
with_key_topics(tm, topics) ==
    [i \in 1..Len(tm) |-> [url |-> tm[i].url, key_topics |-> topics[tm[i].url]]]

\* url_topics[data['url']] = tmap.key_topics[:10] for the zipped pairs whose
\* data has status success; a later pair overwrites an earlier one.
url_topics(sd, tm) ==
    LET n == Min(Len(sd), Len(tm))
        kept == {i \in 1..n : IsSuccess(sd[i])}
        last(u) == CHOOSE i \in kept :
                      /\ sd[i].url = u
                      /\ \A j \in kept : sd[j].url = u => j <= i
    IN  [u \in {sd[i].url : i \in kept} |-> Take(tm[last(u)].key_topics, TopicCap)]

\* Similarities in hundredths.
similarity_matrix(sd, tm) ==
    LET ut == url_topics(sd, tm)
        tm_urls == {tm[i].url : i \in 1..Len(tm)}
        topics(u) == IF u \in DOMAIN ut THEN Range(ut[u]) ELSE {}
    IN  [url1 \in tm_urls |-> [url2 \in tm_urls |->
            IF url1 = url2 THEN 100
            ELSE IF topics(url1) # {} /\ topics(url2) # {}
                 THEN round_2(Cardinality(topics(url1) \cap topics(url2)),
                              Cardinality(topics(url1) \cup topics(url2)))
                 ELSE DefaultSimilarity]]

SimInit == AtRest /\ call = NoCall

\* _fallback_comparison on the output of scrape_multiple and
\* generate_multiple for 2..MaxUrls targets.
FallbackComparison ==
    /\ call = NoCall
    /\ \E n \in 2..MaxUrls : \E acquired \in SUBSET (1..n) :
       \E mapped \in SUBSET acquired : \E topics \in [mapped -> KeyTopicLists] :
          LET sd == scrape_multiple([i \in 1..n |-> i], acquired)
              maps == generate_multiple(sd, mapped)
              tm == with_key_topics(maps.value, topics)
          IN  /\ ~maps.raised
              /\ call' = [op |-> "_fallback_comparison", sd |-> sd, tm |-> tm,
                          similarity_matrix |-> similarity_matrix(sd, tm)]
    /\ RunUnchanged

SimNext == FallbackComparison

SimSpec == SimInit /\ [][SimNext]_vars

\* The key-topic set of a succeeded target.
KeyTopicSet(tm, u) ==
    Range(tm[CHOOSE i \in 1..Len(tm) : tm[i].url = u].key_topics)

\* C11: in the fallback comparison the similarity of two distinct succeeded
\* targets is |A \cap B| / |A \cup B| over their key-topic sets rounded to 2
\* decimals, and it is the constant 0.3 exactly when one of the sets is empty.
C11_FallbackSimilarityIsJaccard ==
    call.op = "_fallback_comparison"
        => \A u1 \in MapUrls(call.tm) : \A u2 \in MapUrls(call.tm) \ {u1} :
              LET A == KeyTopicSet(call.tm, u1)
                  B == KeyTopicSet(call.tm, u2)
                  s == call.similarity_matrix[u1][u2]
              IN  /\ (A # {} /\ B # {})
                        => s = round_2(Cardinality(A \cap B), Cardinality(A \cup B))
                  /\ s = DefaultSimilarity <=> (A = {} \/ B = {})

----------------------------------------------------------------------------
(* Text: a string is the sequence of its characters.  Indexes and slices are
   Python's: positions count from 0 and find returns -1 when there is no
   occurrence. *)

ErrorPrefixLen == 500

\* str.strip() and the regular expressions' \s
Whitespace == {" ", "\n", "\t", "\r"}

Digits == {"0", "1", "2", "3", "4", "5", "6", "7", "8", "9"}

Letters ==
    {"a", "b", "c", "d", "e", "f", "g", "h", "i", "j", "k", "l", "m", "n", "o",
     "p", "q", "r", "s", "t", "u", "v", "w", "x", "y", "z",
     "A", "B", "C", "D", "E", "F", "G", "H", "I", "J", "K", "L", "M", "N", "O",
     "P", "Q", "R", "S", "T", "U", "V", "W", "X", "Y", "Z"}

MinOf(S) == CHOOSE x \in S : \A y \in S : x <= y

MaxOf(S) == CHOOSE x \in S : \A y \in S : y <= x

\* s[a:b]
Slice(s, a, b) == SubSeq(s, a + 1, Min(b, Len(s)))

\* s[a:]
SliceFrom(s, a) == SubSeq(s, a + 1, Len(s))

\* The positions at which pat occurs in s.
Occurrences(s, pat) ==
    {i \in 0..(Len(s) - Len(pat)) : SubSeq(s, i + 1, i + Len(pat)) = pat}

\* s.find(pat, start)
find(s, pat, start) ==
    LET hits == {i \in Occurrences(s, pat) : i >= start}
    IN  IF hits = {} THEN -1 ELSE MinOf(hits)

\* s.rfind(pat)
rfind(s, pat) ==
    IF Occurrences(s, pat) = {} THEN -1 ELSE MaxOf(Occurrences(s, pat))

\* s.count(ch) for a single character
count(s, ch) == Cardinality({i \in 1..Len(s) : s[i] = ch})

\* s.strip()
strip(s) ==
    LET solid == {i \in 1..Len(s) : s[i] \notin Whitespace}
    IN  IF solid = {} THEN <<>> ELSE SubSeq(s, MinOf(solid), MaxOf(solid))

\* s.split('\n')[0]
first_line(s) ==
    IF find(s, <<"\n">>, 0) < 0 THEN s ELSE Slice(s, 0, find(s, <<"\n">>, 0))

\* s.isalpha()
isalpha(s) == s # <<>> /\ \A i \in 1..Len(s) : s[i] \in Letters

\* The characters of s at the positions of keep, in order.
RECURSIVE Pick(_, _)
Pick(s, keep) ==
    IF keep = {} THEN <<>>
    ELSE Append(Pick(s, keep \ {MaxOf(keep)}), s[MaxOf(keep)])

\* c * n
RECURSIVE Repeat(_, _)
Repeat(c, n) == IF n <= 0 THEN <<>> ELSE <<c>> \o Repeat(c, n - 1)

\* re.sub(r',(\s*[}\]])', r'\1', s): every comma followed, after optional
\* whitespace, by a closing brace or bracket is removed.
remove_trailing_commas(s) ==
    LET after(i) == {j \in (i + 1)..Len(s) : s[j] \notin Whitespace}
        trailing(i) == /\ s[i] = ","
                       /\ after(i) # {}
                       /\ s[MinOf(after(i))] \in {"}", "]"}
    IN  Pick(s, {i \in 1..Len(s) : ~trailing(i)})

\* re.sub(r'//.*?\n', '\n', s) from position i (1-based) on: . does not match
\* a newline, so a match runs from // to the next newline.
RECURSIVE remove_line_comments(_, _)
remove_line_comments(s, i) ==
    IF i > Len(s) THEN <<>>
    ELSE LET nl == find(s, <<"\n">>, i + 1)
         IN  IF i < Len(s) /\ SubSeq(s, i, i + 1) = <<"/", "/">> /\ nl >= 0
             THEN <<"\n">> \o remove_line_comments(s, nl + 2)
             ELSE <<s[i]>> \o remove_line_comments(s, i + 1)

\* re.sub(r'/\*.*?\*/', '', s, flags=re.DOTALL) from position i (1-based) on
RECURSIVE remove_block_comments(_, _)
remove_block_comments(s, i) ==
    IF i > Len(s) THEN <<>>
    ELSE LET end == find(s, <<"*", "/">>, i + 1)
         IN  IF i < Len(s) /\ SubSeq(s, i, i + 1) = <<"/", "*">> /\ end >= 0
             THEN remove_block_comments(s, end + 3)
             ELSE <<s[i]>> \o remove_block_comments(s, i + 1)

\* Remove any text before first { or [
trim_before(json_str) ==
    LET first_brace == find(json_str, <<"{">>, 0)
        first_bracket == find(json_str, <<"[">>, 0)
    IN  IF first_brace >= 0 /\ (first_bracket < 0 \/ first_brace < first_bracket)
        THEN SliceFrom(json_str, first_brace)
        ELSE IF first_bracket >= 0 THEN SliceFrom(json_str, first_bracket)
        ELSE json_str

\* Remove any text after last } or ]
trim_after(json_str) ==
    LET last_brace == rfind(json_str, <<"}">>)
        last_bracket == rfind(json_str, <<"]">>)
    IN  IF last_brace >= 0 /\ last_brace > last_bracket
        THEN Slice(json_str, 0, last_brace + 1)
        ELSE IF last_bracket >= 0 THEN Slice(json_str, 0, last_bracket + 1)
        ELSE json_str

_clean_json_string(json_str) ==
    strip(trim_after(trim_before(
        remove_block_comments(
            remove_line_comments(remove_trailing_commas(json_str), 1), 1))))

----------------------------------------------------------------------------
(* json.loads: a value is given by the sequence of its tokens, each a record
   [k, v]: k is the punctuation mark, "s" for a string, "n" for a number or
   the literal itself; v holds the characters of a string or number.  Two
   texts load to equal values when their token sequences are equal (no
   object of the texts studied here repeats a key). *)

JsonWhitespace == {" ", "\n", "\t", "\r"}

Escapes == {"\"", "\\", "/", "b", "f", "n", "r", "t"}

Mark(c) == [k |-> c, v |-> <<>>]

NoParse == [ok |-> FALSE, next |-> 0, toks |-> <<>>]

\* The first position from i on that holds no whitespace; Len(s) + 1 if none.
skip_ws(s, i) ==
    LET solid == {j \in i..Len(s) : s[j] \notin JsonWhitespace}
    IN  IF solid = {} THEN Len(s) + 1 ELSE MinOf(solid)

\* The character an escape sequence stands for; backspace and form feed go
\* by their names.
unescape(c) ==
    IF c = "n" THEN "\n" ELSE IF c = "t" THEN "\t" ELSE IF c = "r" THEN "\r"
    ELSE IF c = "b" THEN "backspace" ELSE IF c = "f" THEN "formfeed"
    ELSE c

\* The body of a string from position i on, acc holding the characters read:
\* it ends at the closing quote; a control character or an unknown escape is
\* an error.
RECURSIVE scan_string(_, _, _)
scan_string(s, i, acc) ==
    IF i > Len(s) THEN NoParse
    ELSE IF s[i] = "\"" THEN [ok |-> TRUE, next |-> i + 1,
                              toks |-> << [k |-> "s", v |-> acc] >>]
    ELSE IF s[i] = "\\"
         THEN IF i < Len(s) /\ s[i + 1] \in Escapes
              THEN scan_string(s, i + 2, Append(acc, unescape(s[i + 1])))
              ELSE NoParse
    ELSE IF s[i] \in {"\n", "\t", "\r"} THEN NoParse
    ELSE scan_string(s, i + 1, Append(acc, s[i]))

\* -?(0|[1-9][0-9]*): the texts studied here hold no fraction or exponent.
\* The value of -0 is 0.
scan_number(s, i) ==
    LET first == IF s[i] = "-" THEN i + 1 ELSE i
        stop == {j \in first..Len(s) : s[j] \notin Digits}
        end == IF stop = {} THEN Len(s) + 1 ELSE MinOf(stop)
        last == IF first <= Len(s) /\ s[first] = "0" THEN first + 1 ELSE end
    IN  IF last = first THEN NoParse
        ELSE [ok |-> TRUE, next |-> last,
              toks |-> << [k |-> "n",
                           v |-> IF SubSeq(s, i, last - 1) = <<"-", "0">>
                                 THEN <<"0">> ELSE SubSeq(s, i, last - 1)] >>]

scan_literal(s, i) ==
    LET word == IF s[i] = "t" THEN <<"t", "r", "u", "e">>
                ELSE IF s[i] = "f" THEN <<"f", "a", "l", "s", "e">>
                ELSE <<"n", "u", "l", "l">>
    IN  IF i + Len(word) - 1 <= Len(s) /\ SubSeq(s, i, i + Len(word) - 1) = word
        THEN [ok |-> TRUE, next |-> i + Len(word),
              toks |-> << [k |-> "lit", v |-> word] >>]
        ELSE NoParse

RECURSIVE parse_value(_, _), parse_elements(_, _, _), parse_members(_, _, _)
RECURSIVE member_toks(_, _)

\* The value that starts at position i.
parse_value(s, i) ==
    IF i > Len(s) THEN NoParse
    ELSE IF s[i] = "\"" THEN scan_string(s, i + 1, <<>>)
    ELSE IF s[i] \in Digits \cup {"-"} THEN scan_number(s, i)
    ELSE IF s[i] \in {"t", "f", "n"} THEN scan_literal(s, i)
    ELSE IF s[i] = "["
         THEN LET j == skip_ws(s, i + 1)
              IN  IF j <= Len(s) /\ s[j] = "]"
                  THEN [ok |-> TRUE, next |-> j + 1,
                        toks |-> <<Mark("["), Mark("]")>>]
                  ELSE parse_elements(s, j, <<Mark("[")>>)
    ELSE IF s[i] = "{"
         THEN LET j == skip_ws(s, i + 1)
              IN  IF j <= Len(s) /\ s[j] = "}"
                  THEN [ok |-> TRUE, next |-> j + 1,
                        toks |-> <<Mark("{"), Mark("}")>>]
                  ELSE parse_members(s, j, <<>>)
    ELSE NoParse

\* The elements of an array from position i on, up to its closing bracket.
parse_elements(s, i, acc) ==
    LET value == parse_value(s, i)
        j == skip_ws(s, value.next)
    IN  IF ~value.ok \/ j > Len(s) THEN NoParse
        ELSE IF s[j] = "]"
             THEN [ok |-> TRUE, next |-> j + 1,
                   toks |-> acc \o value.toks \o <<Mark("]")>>]
        ELSE IF s[j] = ","
             THEN parse_elements(s, skip_ws(s, j + 1),
                                 acc \o value.toks \o <<Mark(",")>>)
        ELSE NoParse

\* dict[key] = value: a key met again keeps its place and takes the new value.
put_member(members, key, value) ==
    IF \E m \in 1..Len(members) : members[m].key = key
    THEN [m \in 1..Len(members) |->
             IF members[m].key = key THEN [key |-> key, value |-> value]
             ELSE members[m]]
    ELSE Append(members, [key |-> key, value |-> value])

\* The tokens of the members from the m-th on, up to the closing brace.
member_toks(members, m) ==
    members[m].key \o <<Mark(":")>> \o members[m].value
        \o (IF m = Len(members) THEN <<Mark("}")>>
            ELSE <<Mark(",")>> \o member_toks(members, m + 1))

\* The members of an object from position i on, up to its closing brace.
parse_members(s, i, acc) ==
    LET key == IF i <= Len(s) /\ s[i] = "\"" THEN scan_string(s, i + 1, <<>>)
               ELSE NoParse
        colon == skip_ws(s, key.next)
        value == parse_value(s, skip_ws(s, colon + 1))
        j == skip_ws(s, value.next)
    IN  IF ~key.ok \/ colon > Len(s) THEN NoParse
        ELSE IF s[colon] # ":" THEN NoParse
        ELSE IF ~value.ok \/ j > Len(s) THEN NoParse
        ELSE IF s[j] = "}"
             THEN [ok |-> TRUE, next |-> j + 1,
                   toks |-> <<Mark("{")>>
                       \o member_toks(put_member(acc, key.toks, value.toks), 1)]
        ELSE IF s[j] = ","
             THEN parse_members(s, skip_ws(s, j + 1),
                                put_member(acc, key.toks, value.toks))
        ELSE NoParse

\* json.loads(s): ok is FALSE where it raises JSONDecodeError.
json_loads(s) ==
    LET value == parse_value(s, skip_ws(s, 1))
    IN  IF value.ok /\ skip_ws(s, value.next) > Len(s)
        THEN [ok |-> TRUE, value |-> value.toks]
        ELSE [ok |-> FALSE, value |-> <<>>]

----------------------------------------------------------------------------
(* AIService: repair, partial extraction and the parsing strategies *)

\* The last occurrence of a complete item; -1 when there is none.
last_complete_item(json_str) ==
    LET last_valid_positions ==
            {rfind(json_str, <<"\"", ",">>),
             rfind(json_str, <<"\"", ",", "\n">>),
             rfind(json_str, <<"}", ",">>),
             rfind(json_str, <<"]", ",">>),
             rfind(json_str, <<":", " ", "\"">>)}
    IN  IF \A pos \in last_valid_positions : pos <= 0 THEN -1
        ELSE MaxOf(last_valid_positions)

\* The content after the last complete item looks incomplete.
looks_incomplete(remaining) ==
    /\ remaining # <<>>
    /\ \/ count(remaining, "\"") % 2 # 0
       \/ count(remaining, "{") # count(remaining, "}")
       \/ count(remaining, "[") # count(remaining, "]")

\* Truncate to last complete item
truncate_incomplete(json_str, last_complete) ==
    IF last_complete > 0
       /\ looks_incomplete(strip(SliceFrom(json_str, last_complete + 2)))
    THEN Slice(json_str, 0, last_complete + 1)
    ELSE json_str

\* Remove the trailing commas and close the unclosed structures: the brackets
\* first, then the braces.
close_structures(json_str) ==
    remove_trailing_commas(json_str)
        \o Repeat("]", count(json_str, "[") - count(json_str, "]"))
        \o Repeat("}", count(json_str, "{") - count(json_str, "}"))

_repair_truncated_json(json_str) ==
    close_structures(truncate_incomplete(json_str, last_complete_item(json_str)))

\* One step of the loop of _extract_partial_json over the characters.
partial_step(st, char) ==
    IF st.escape_next
    THEN [st EXCEPT !.current_item = Append(@, char), !.escape_next = FALSE]
    ELSE IF char = "\\"
    THEN [st EXCEPT !.escape_next = TRUE, !.current_item = Append(@, char)]
    ELSE LET in_string == IF char = "\"" THEN ~st.in_string ELSE st.in_string
             opened == ~in_string /\ char = "{"
             closed == ~in_string /\ char = "}"
             depth == IF opened THEN st.depth + 1
                      ELSE IF closed THEN st.depth - 1 ELSE st.depth
             item == IF opened /\ st.depth = 0 THEN <<>> ELSE st.current_item
         IN  IF closed /\ depth = 0 /\ item # <<>>
             THEN [st EXCEPT !.in_string = in_string, !.depth = depth,
                             !.complete_items = Append(@, Append(item, "}")),
                             !.current_item = <<>>]
             ELSE [st EXCEPT !.in_string = in_string, !.depth = depth,
                             !.current_item = IF depth > 0 THEN Append(item, char)
                                              ELSE item]

\* The state of the loop after the first n characters.
RECURSIVE partial_scan(_, _)
partial_scan(json_str, n) ==
    IF n = 0
    THEN [complete_items |-> <<>>, depth |-> 0, current_item |-> <<>>,
          in_string |-> FALSE, escape_next |-> FALSE]
    ELSE partial_step(partial_scan(json_str, n - 1), json_str[n])

\* ','.join(items)
RECURSIVE join(_)
join(items) ==
    IF items = <<>> THEN <<>>
    ELSE IF Len(items) = 1 THEN items[1]
    ELSE items[1] \o <<",">> \o join(Tail(items))

\* json_str.strip().startswith('[')
starts_array(json_str) == json_str # <<>> /\ json_str[1] = "["

\* The array of the complete items when the text starts an array and holds
\* one; else <<>>.
array_of_complete(json_str, complete_items) ==
    IF starts_array(strip(json_str)) /\ complete_items # <<>>
    THEN << <<"[">> \o join(complete_items) \o <<"]">> >>
    ELSE <<>>

_extract_partial_json(json_str) ==
    (array_of_complete(json_str,
                       partial_scan(json_str, Len(json_str)).complete_items)
        \o << _repair_truncated_json(json_str) >>)[1]

\* The first of the four parses that succeeded: ok is FALSE where
\* _parse_json_with_repair raises JSONDecodeError; stage is the last stage
\* entered.
first_parse(direct, cleaned, repaired, partial) ==
    IF direct.ok THEN [ok |-> TRUE, stage |-> "direct", value |-> direct.value]
    ELSE IF cleaned.ok
    THEN [ok |-> TRUE, stage |-> "cleanup", value |-> cleaned.value]
    ELSE IF repaired.ok
    THEN [ok |-> TRUE, stage |-> "repair", value |-> repaired.value]
    ELSE [ok |-> partial.ok, stage |-> "partial", value |-> partial.value]

\* _parse_json_with_repair once the direct parse is done, stopping after the
\* truncation repair: the last parse is that of the repaired text again.
parse_cleaned_without_partial(direct, cleaned) ==
    first_parse(direct, json_loads(cleaned),
                json_loads(_repair_truncated_json(cleaned)),
                json_loads(_repair_truncated_json(cleaned)))

\* _parse_json_with_repair once the direct parse is done.
parse_cleaned(direct, cleaned) ==
    first_parse(direct, json_loads(cleaned),
                json_loads(_repair_truncated_json(cleaned)),
                json_loads(_extract_partial_json(cleaned)))

_parse_json_with_repair(json_str) ==
    parse_cleaned(json_loads(json_str), _clean_json_string(json_str))

\* The grave accent, which a string of this language cannot hold.
Tick == "tick"

Fence == <<Tick, Tick, Tick>>

JsonFence == Fence \o <<"j", "s", "o", "n">>

\* The candidate of a code block whose content starts at json_start: up to
\* the closing fence, or the rest of the response when there is none.
block_content(response, json_start, json_end) ==
    IF json_end > json_start
    THEN << strip(Slice(response, json_start, json_end)) >>
    ELSE << strip(SliceFrom(response, json_start)) >>

block_from(response, json_start) ==
    block_content(response, json_start, find(response, Fence, json_start))

\* Strategy 1: the candidate of the json block; <<>> when there is none.
json_block(response) ==
    IF find(response, JsonFence, 0) < 0 THEN <<>>
    ELSE block_from(response, find(response, JsonFence, 0) + 7)

\* Skip language identifier if present
skip_identifier(response, json_start) ==
    IF isalpha(first_line(strip(Slice(response, json_start, json_start + 10))))
    THEN find(response, <<"\n">>, json_start) + 1
    ELSE json_start

\* Strategy 2: the candidate of the first code block of any language.
code_block(response) ==
    IF find(response, Fence, 0) < 0 THEN <<>>
    ELSE block_from(response,
                    skip_identifier(response, find(response, Fence, 0) + 3))

\* Strategy 3: re.search(r'\[\s*\{[\s\S]*\}\s*\]', response): the leftmost [
\* followed by whitespace and {, up to the last ] that follows a } and
\* whitespace.
array_match(response) ==
    LET n == Len(response)
        next_solid(i) == skip_ws(response, i + 1)
        prev_solid(i) == LET solid == {j \in 1..(i - 1) :
                                          response[j] \notin Whitespace}
                         IN  IF solid = {} THEN 0 ELSE MaxOf(solid)
        opens(i) == /\ response[i] = "["
                    /\ next_solid(i) <= n
                    /\ response[next_solid(i)] = "{"
        closes(i) == /\ response[i] = "]"
                     /\ prev_solid(i) > 0
                     /\ response[prev_solid(i)] = "}"
        matches == {i \in 1..n :
                       opens(i) /\ \E e \in 1..n :
                                      closes(e) /\ prev_solid(e) > next_solid(i)}
    IN  IF matches = {} THEN <<>>
        ELSE LET start == MinOf(matches)
                 end == MaxOf({e \in 1..n : closes(e)
                                  /\ prev_solid(e) > next_solid(start)})
             IN  << SubSeq(response, start, end) >>

\* Strategy 4: re.search(r'\{[\s\S]*\}', response): the first { up to the
\* last }.
object_match(response) ==
    LET first_brace == find(response, <<"{">>, 0)
        last_brace == rfind(response, <<"}">>)
    IN  IF first_brace >= 0 /\ last_brace > first_brace
        THEN << Slice(response, first_brace, last_brace + 1) >>
        ELSE <<>>

\* The candidates found by a strategy, each with the number of the strategy.
tagged(strategy, found) ==
    [i \in 1..Len(found) |-> [strategy |-> strategy, json_str |-> found[i]]]

\* The candidates of extract_json in the order they are tried.
candidates(response) ==
    tagged(1, json_block(response)) \o tagged(2, code_block(response))
        \o tagged(3, array_match(response)) \o tagged(4, object_match(response))
        \o tagged(5, <<response>>)

\* The ValueError of extract_json: its message ends with response[:500].
ExtractionError(response) ==
    [text |-> "Could not extract valid JSON from AI response. First 500 chars: ",
     first_chars |-> Take(response, ErrorPrefixLen)]

\* The result of extract_json given its candidates and what
\* _parse_json_with_repair made of each: attempts lists, for each candidate
\* tried, its strategy and the last stage it entered.
first_parsed(response, tried, parsed) ==
    LET good == {i \in 1..Len(tried) : parsed[i].ok}
        last == IF good = {} THEN Len(tried) ELSE MinOf(good)
        attempts == [i \in 1..last |-> [strategy |-> tried[i].strategy,
                                        stage |-> parsed[i].stage,
                                        ok |-> parsed[i].ok]]
    IN  IF good = {}
        THEN [raised |-> TRUE, error |-> << ExtractionError(response) >>,
              value |-> <<>>, attempts |-> attempts]
        ELSE [raised |-> FALSE, error |-> <<>>,
              value |-> parsed[last].value, attempts |-> attempts]

try_strategies(response, tried) ==
    first_parsed(response, tried,
                 [i \in 1..Len(tried) |-> _parse_json_with_repair(tried[i].json_str)])

\* extract_json from the text the backend returned on.
extract_json_from(text) ==
    try_strategies(strip(text), candidates(strip(text)))

----------------------------------------------------------------------------
(* The texts a backend returns, and extract_json applied to them *)

\* {"a": 1, "b": [1,2]}
ObjectWithArray ==
    <<"{", "\"", "a", "\"", ":", " ", "1", ",", " ", "\"", "b", "\"", ":",
      " ", "[", "1", ",", "2", "]", "}">>

\* {"a":[{"b":1}]}
ObjectWithObjects ==
    <<"{", "\"", "a", "\"", ":", "[", "{", "\"", "b", "\"", ":", "1", "}",
      "]", "}">>

\* {"u":"//x"}
ObjectWithSlashes ==
    <<"{", "\"", "u", "\"", ":", "\"", "/", "/", "x", "\"", "}">>

\* {"u":",]"}
ObjectWithCloser ==
    <<"{", "\"", "u", "\"", ":", "\"", ",", "]", "\"", "}">>

\* [{"x":1},{"x":2},{"x":3}]
ArrayOfThree ==
    <<"[", "{", "\"", "x", "\"", ":", "1", "}", ",", "{", "\"", "x", "\"",
      ":", "2", "}", ",", "{", "\"", "x", "\"", ":", "3", "}", "]">>

\* [{"x":1},{"x":2}]
ArrayOfTwo ==
    <<"[", "{", "\"", "x", "\"", ":", "1", "}", ",", "{", "\"", "x", "\"",
      ":", "2", "}", "]">>

\* [{"x":1} {"x":2}]
ArrayWithoutComma ==
    <<"[", "{", "\"", "x", "\"", ":", "1", "}", " ", "{", "\"", "x", "\"",
      ":", "2", "}", "]">>

\* Sorry.
Prose ==
    <<"S", "o", "r", "r", "y", ".">>

\* 42
Number ==
    <<"4", "2">>

ObjectDocs == {ObjectWithArray, ObjectWithObjects, ObjectWithSlashes,
               ObjectWithCloser}

ArrayDocs == {ArrayOfThree, ArrayOfTwo, ArrayWithoutComma}

Docs == ObjectDocs \cup ArrayDocs \cup {Prose, Number}

Shapes == {"clean", "fenced", "fenced_truncated", "line_comment",
           "block_comment"}

\* " // c" and a newline
LineComment == <<" ", "/", "/", " ", "c", "\n">>

\* "/* c */"
BlockComment == <<"/", "*", " ", "c", " ", "*", "/">>

\* The text of a document in one of the shapes a response takes.
serialize_with_noise(doc, shape) ==
    IF shape = "fenced"
    THEN JsonFence \o <<"\n">> \o doc \o <<"\n">> \o Fence
    ELSE IF shape = "fenced_truncated" THEN JsonFence \o <<"\n">> \o doc
    ELSE IF shape = "line_comment" THEN <<doc[1]>> \o LineComment \o Tail(doc)
    ELSE IF shape = "block_comment" THEN BlockComment \o doc
    ELSE doc

JsonInit == AtRest /\ call = NoCall

\* extract_json on the text the backend returned: a document in one of the
\* shapes, cut after some character when the shape is clean (the token limit
\* of the backend), with or without a leading newline.
ExtractJson ==
    /\ call = NoCall
    /\ \E doc \in Docs : \E shape \in Shapes : \E newline \in BOOLEAN :
       \E cut \in 0..Len(serialize_with_noise(doc, shape)) :
          LET whole == serialize_with_noise(doc, shape)
              text == (IF newline THEN <<"\n">> ELSE <<>>) \o Take(whole, cut)
          IN  /\ shape # "clean" => cut = Len(whole)
              /\ call' = [op |-> "extract_json", doc |-> doc, shape |-> shape,
                          cut |-> cut, text |-> text,
                          result |-> extract_json_from(text)]
    /\ RunUnchanged

JsonNext == ExtractJson

JsonSpec == JsonInit /\ [][JsonNext]_vars

\* The response is the clean text of doc cut after cut characters, without
\* the leading newline.
CleanCut(doc, cut) ==
    /\ call.op = "extract_json"
    /\ call.doc = doc /\ call.shape = "clean" /\ call.cut = cut
    /\ call.text = Take(doc, cut)

\* The positions of the element separators inside the array of
\* ObjectWithArray.
ArraySeparators ==
    {i \in 1..Len(ObjectWithArray) :
        /\ ObjectWithArray[i] = ","
        /\ i > find(ObjectWithArray, <<"[">>, 0)}

\* C12: for a response that is a JSON object truncated inside a nested array
\* right after an element separator, extraction does not fail: it returns the
\* object with the complete preceding pairs, the incomplete array either
\* dropped or closed.
C12_TruncatedArrayRepaired ==
    \A cut \in ArraySeparators :
        CleanCut(ObjectWithArray, cut)
            => /\ ~call.result.raised
               /\ call.result.value \in
                     {json_loads(<<"{", "\"", "a", "\"", ":", "1", "}">>).value,
                      json_loads(Take(ObjectWithArray, cut - 1)
                                     \o <<"]", "}">>).value}

\* The position of the opening brace of the last object of an array.
LastObject(doc) == rfind(doc, <<"{">>) + 1

\* C13: for a response that is a JSON array of objects whose last object is
\* truncated, extraction returns exactly the array of the complete objects in
\* their order.
C13_CompleteObjectsOfTruncatedArray ==
    \A doc \in {ArrayOfThree, ArrayOfTwo} :
        \A cut \in LastObject(doc)..(Len(doc) - 2) :
            CleanCut(doc, cut)
                => /\ ~call.result.raised
                   /\ call.result.value =
                         json_loads(Take(doc, LastObject(doc) - 2)
                                        \o <<"]">>).value

\* C14: for a response that holds neither { nor [, extraction fails with the
\* extraction error before any strategy runs: no candidate is handed to
\* cleanup, repair or partial extraction.
C14_NoJsonFailsFast ==
    (call.op = "extract_json"
        /\ \A i \in 1..Len(call.text) : call.text[i] \notin {"{", "["})
        => /\ call.result.raised
           /\ call.result.attempts = <<>>

\* C15: extraction of a JSON object serialised clean, fenced, fenced without
\* the closing fence or decorated with a comment returns the object.
C15_RoundTrip ==
    (call.op = "extract_json"
        /\ call.doc \in ObjectDocs
        /\ call.cut = Len(serialize_with_noise(call.doc, call.shape)))
        => /\ ~call.result.raised
           /\ call.result.value = json_loads(call.doc).value

----------------------------------------------------------------------------
(* The AI gateway and the per-target requests of the knowledge graph and the
   topical map *)

MaxTargets == 2

Backends == {"groq", "deepseek"}

\* What the selected backend does with a request: it raises, or it answers
\* with a text.
Replies ==
    {[error |-> TRUE, text |-> <<>>],
     [error |-> FALSE, text |-> Prose],
     [error |-> FALSE, text |-> ObjectWithArray]}

\* The request sent to a backend: ValueError when its client was not built,
\* else what the backend does.  requests lists the backends a request was
\* sent to.
request_to(clients, backend, reply) ==
    IF ~clients[backend]
    THEN [raised |-> "not_configured", requests |-> <<>>, text |-> <<>>]
    ELSE IF reply.error
         THEN [raised |-> "backend_error", requests |-> <<backend>>,
               text |-> <<>>]
         ELSE [raised |-> "none", requests |-> <<backend>>, text |-> reply.text]

\* analyze_with_ai falling back to the other backend when the selected one
\* has no client.
analyze_with_ai_fallback(clients, use_deepseek, reply) ==
    IF use_deepseek
    THEN request_to(clients, IF clients["deepseek"] THEN "deepseek" ELSE "groq",
                    reply)
    ELSE request_to(clients, IF clients["groq"] THEN "groq" ELSE "deepseek",
                    reply)

\* clients[b] is TRUE when the client of backend b was built, that is when its
\* API key is configured.
analyze_with_ai(clients, use_deepseek, reply) ==
    IF use_deepseek THEN request_to(clients, "deepseek", reply)
    ELSE request_to(clients, "groq", reply)

\* extract_json_from tabulated over the texts of Replies.
Extracted == [text \in {reply.text : reply \in Replies} |-> extract_json_from(text)]

\* extract_json after the gateway call: the parsing of the text it returned.
parse_response(response) ==
    IF response.raised # "none"
    THEN [raised |-> response.raised, requests |-> response.requests]
    ELSE IF Extracted[response.text].raised
         THEN [raised |-> "extraction_error", requests |-> response.requests]
         ELSE [raised |-> "none", requests |-> response.requests]

\* extract_json: the gateway call, then the parsing of the text it returned.
extract_json(clients, use_deepseek, reply) ==
    parse_response(analyze_with_ai(clients, use_deepseek, reply))

\* The entry of the log of gateway calls for a call of extract_json.
GatewayCall(prompt, use_deepseek, result) ==
    [prompt |-> prompt, use_deepseek |-> use_deepseek,
     requests |-> result.requests, raised |-> result.raised]

\* The try block of extract_entities_for_domain without its except clause.
entities_or_raise(entities) ==
    [raised |-> entities.raised,
     entities |-> IF entities.raised = "none" THEN "extracted" ELSE "unset",
     calls |-> << GatewayCall("entities", TRUE, entities) >>]

\* The try block of extract_entities_for_domain around its call of
\* extract_json: every exception leaves the empty lists.
entities_or_empty(entities) ==
    [raised |-> "none",
     entities |-> IF entities.raised = "none" THEN "extracted" ELSE "empty",
     calls |-> << GatewayCall("entities", TRUE, entities) >>]

extract_entities_for_domain(clients, reply) ==
    entities_or_empty(extract_json(clients, TRUE, reply))

\* except ValueError as e: the backend-unavailable error and the extraction
\* error are ValueErrors; the message of the latter alone holds
\* "Could not extract valid JSON".
IsValueError(raised) == raised \in {"not_configured", "extraction_error"}

IsExtractionMessage(raised) == raised = "extraction_error"

\* The except clause of the main request entered with any ValueError.
retry_on_any(result) ==
    [at |-> IF result.raised = "none" THEN "mapped"
            ELSE IF IsValueError(result.raised) THEN "retry" ELSE "failed",
     error |-> IF IsValueError(result.raised) THEN "none" ELSE result.raised,
     calls |-> << GatewayCall("main", TRUE, result) >>]

\* The except clause of the main request: the retry is taken on a ValueError
\* whose message is that of the extraction, every other error is raised.
retry_on_extraction(result) ==
    [at |-> IF result.raised = "none" THEN "mapped"
            ELSE IF IsValueError(result.raised)
                    /\ IsExtractionMessage(result.raised)
                 THEN "retry" ELSE "failed",
     error |-> IF IsValueError(result.raised)
                  /\ IsExtractionMessage(result.raised)
               THEN "none" ELSE result.raised,
     calls |-> << GatewayCall("main", TRUE, result) >>]

\* generate_topical_map_with_ai up to the end of its first await.
main_request(clients, reply) ==
    retry_on_extraction(extract_json(clients, TRUE, reply))

\* The retry has no handler of its own: its error is raised.
raise_on_error(result) ==
    [at |-> IF result.raised = "none" THEN "mapped" ELSE "failed",
     error |-> result.raised,
     calls |-> << GatewayCall("simplified", TRUE, result) >>]

\* generate_topical_map_with_ai from the retry inside the except clause on.
simplified_request(clients, reply) ==
    raise_on_error(extract_json(clients, TRUE, reply))

\* The analysis once extract_entities_for_domain returned r for target u.
after_entities(analysis, u, r) ==
    [analysis EXCEPT !.at[u] = IF r.raised = "none" THEN "domain_node"
                               ELSE "failed",
                     !.entities[u] = r.entities,
                     !.error[u] = r.raised,
                     !.calls[u] = @ \o r.calls]

\* The analysis once a request of the topical map of target u ended as r.
after_request(analysis, u, r) ==
    [analysis EXCEPT !.at[u] = r.at, !.error[u] = r.error,
                     !.calls[u] = @ \o r.calls]

KgPositions == {"extract_entities", "domain_node"}

AiInit == AtRest /\ call = NoCall

\* AIService.__init__ and the targets handed to generate_graph.
Configure ==
    /\ call = NoCall
    /\ \E n \in 1..MaxTargets : \E clients \in [Backends -> BOOLEAN] :
          call' = [op |-> "analysis", clients |-> clients,
                   at |-> [u \in 1..n |-> "extract_entities"],
                   entities |-> [u \in 1..n |-> "unset"],
                   domain_node |-> [u \in 1..n |-> FALSE],
                   error |-> [u \in 1..n |-> "none"],
                   calls |-> [u \in 1..n |-> <<>>]]
    /\ RunUnchanged

\* generate_graph handles the domains one after the other.
ExtractEntities(u) ==
    /\ call.at[u] = "extract_entities"
    /\ \A v \in 1..(u - 1) : call.at[v] \notin KgPositions
    /\ \E reply \in Replies :
          call' = after_entities(call, u,
                                 extract_entities_for_domain(call.clients, reply))
    /\ RunUnchanged

CreateDomainNode(u) ==
    /\ call.at[u] = "domain_node"
    /\ call' = [call EXCEPT !.at[u] = "topical_map", !.domain_node[u] = TRUE]
    /\ RunUnchanged

\* generate_multiple starts after generate_graph returned; its tasks
\* interleave at their awaits.
MainRequest(u) ==
    /\ call.at[u] = "topical_map"
    /\ \A v \in DOMAIN call.at : call.at[v] \notin KgPositions
    /\ \E reply \in Replies :
          call' = after_request(call, u, main_request(call.clients, reply))
    /\ RunUnchanged

SimplifiedRequest(u) ==
    /\ call.at[u] = "retry"
    /\ \E reply \in Replies :
          call' = after_request(call, u, simplified_request(call.clients, reply))
    /\ RunUnchanged

AiNext ==
    \/ Configure
    \/ call.op = "analysis" /\ \E u \in DOMAIN call.at : ExtractEntities(u)
    \/ call.op = "analysis" /\ \E u \in DOMAIN call.at : CreateDomainNode(u)
    \/ call.op = "analysis" /\ \E u \in DOMAIN call.at : MainRequest(u)
    \/ call.op = "analysis" /\ \E u \in DOMAIN call.at : SimplifiedRequest(u)

AiSpec == AiInit /\ [][AiNext]_vars

\* The gateway calls of target u made with one of the prompts.
CallsWith(u, prompts) ==
    SelectSeq(call.calls[u], LAMBDA c : c.prompt \in prompts)

Selected(c) == IF c.use_deepseek THEN "deepseek" ELSE "groq"

\* C17: a gateway call whose selected backend has no credential fails with
\* the backend-unavailable error and sends no request to any backend; every
\* gateway call sends at most one backend request, to the selected backend.
C17_NoBackendFallback ==
    call.op = "analysis"
        => \A u \in DOMAIN call.calls : \A i \in 1..Len(call.calls[u]) :
              LET c == call.calls[u][i]
              IN  /\ Len(c.requests) <= 1
                  /\ Range(c.requests) \subseteq {Selected(c)}
                  /\ ~call.clients[Selected(c)]
                        => c.raised = "not_configured" /\ c.requests = <<>>

\* DeepSeek was selected without a key while Groq has one: the call failed
\* without a request.
C17_Witness ==
    /\ call.op = "analysis"
    /\ call.clients["groq"] /\ ~call.clients["deepseek"]
    /\ \E u \in DOMAIN call.calls : \E i \in 1..Len(call.calls[u]) :
          /\ call.calls[u][i].prompt = "main"
          /\ call.calls[u][i].raised = "not_configured"
          /\ call.calls[u][i].requests = <<>>

\* C18: when the structured extraction of the entity request fails, the
\* gateway is called exactly once more with a simplified prompt before the
\* entity lists are set to empty.
C18_EntityRetry ==
    call.op = "analysis"
        => \A u \in DOMAIN call.at :
              (call.entities[u] = "empty"
                  /\ call.calls[u][1].raised = "extraction_error")
                 => /\ Len(CallsWith(u, {"entities", "simplified_entities"})) = 2
                    /\ call.calls[u][2].prompt = "simplified_entities"

\* The targets whose entity request failed.
EntityFailed(u) ==
    /\ call.calls[u] # <<>>
    /\ call.calls[u][1].prompt = "entities"
    /\ call.calls[u][1].raised # "none"

\* C19: a failure of the entity request never fails the target: its entity
\* lists are empty, its domain node is created and the target goes on to the
\* topical-map request.
C19_EntityFailureIsAbsorbed ==
    call.op = "analysis"
        => \A u \in DOMAIN call.at :
              EntityFailed(u)
                 => /\ call.entities[u] = "empty"
                    /\ call.at[u] \in {"domain_node", "topical_map", "retry",
                                       "mapped", "failed"}
                    /\ call.at[u] # "domain_node" => call.domain_node[u]
                    /\ call.at[u] = "failed" => CallsWith(u, {"main"}) # <<>>

\* The entity request hit a backend error; the domain node exists and the
\* topical map was generated.
C19_Witness ==
    /\ call.op = "analysis"
    /\ \E u \in DOMAIN call.at :
          /\ EntityFailed(u)
          /\ call.calls[u][1].raised = "backend_error"
          /\ call.entities[u] = "empty"
          /\ call.domain_node[u]
          /\ call.at[u] = "mapped"

\* C20: the main request of a target is retried exactly once, with the
\* simplified prompt, when it fails with the extraction error, so that a
\* target makes at most 2 main gateway calls; a failure that is not an
\* extraction failure is never retried.
C20_TopicalMapRetry ==
    call.op = "analysis"
        => \A u \in DOMAIN call.at :
              LET main == CallsWith(u, {"main"})
                  retry == CallsWith(u, {"simplified"})
              IN  /\ Len(main) <= 1 /\ Len(retry) <= 1
                  /\ retry # <<>>
                        => main # <<>> /\ main[1].raised = "extraction_error"
                  /\ (main # <<>> /\ main[1].raised = "extraction_error")
                        => \/ call.at[u] = "retry" /\ retry = <<>>
                           \/ call.at[u] \in {"mapped", "failed"} /\ Len(retry) = 1
                  /\ (main # <<>> /\ main[1].raised \in {"not_configured",
                                                         "backend_error"})
                        => call.at[u] = "failed" /\ retry = <<>>
                           /\ call.error[u] = main[1].raised

\* A target whose main request failed extraction, was retried once and
\* failed again, next to a target whose main request hit a backend error.
C20_Witness ==
    /\ call.op = "analysis"
    /\ \E u \in DOMAIN call.at :
          /\ Len(CallsWith(u, {"main", "simplified"})) = 2
          /\ call.at[u] = "failed"
          /\ call.error[u] = "extraction_error"
    /\ \E u \in DOMAIN call.at :
          /\ CallsWith(u, {"main"}) # <<>>
          /\ CallsWith(u, {"main"})[1].raised = "backend_error"
          /\ call.at[u] = "failed"

----------------------------------------------------------------------------
(* Bulk article generation: _generate_category_articles and its retry loop *)

MaxItems == 11
ArticleCap == 10
max_retries == 3

\* How an await of ai_service.extract_json ends inside the try block: with a
\* list of article data of which at most one entry (bad, 0 when none) is not a
\* valid ContentArticle, or with an exception.  marker tells whether str(e)
\* holds 'rate_limit' or '429': the message of a rate-limit error of the
\* backend does, the message of the missing API key does not, and the message
\* of any other error (it quotes the backend or the response text) may.
BulkOutcomes ==
    {[class |-> "none", marker |-> FALSE, items |-> n, bad |-> b] :
        n \in 0..MaxItems, b \in 0..MaxItems}
    \cup {[class |-> "rate_limit", marker |-> TRUE, items |-> 0, bad |-> 0],
          [class |-> "not_configured", marker |-> FALSE, items |-> 0, bad |-> 0]}
    \cup {[class |-> c, marker |-> m, items |-> 0, bad |-> 0] :
            c \in {"backend_error", "extraction_error"}, m \in BOOLEAN}

\* 'rate_limit' in error_str.lower() or '429' in error_str
is_rate_limit(outcome) == outcome.marker

\* The articles built from articles_data[:10]: the entries that are not valid
\* are skipped.
articles_of(outcome) ==
    Min(outcome.items, ArticleCap)
        - (IF outcome.bad \in 1..Min(outcome.items, ArticleCap) THEN 1 ELSE 0)

\* wait_time = (attempt + 1) * 2
wait_time(attempt) == (attempt + 1) * 2

\* One pass of the loop body, up to its return or to the await of the sleep.
\* No path of the handler raises.
attempt_ends(bulk, outcome) ==
    IF outcome.class = "none"
    THEN [bulk EXCEPT !.at = "returned", !.articles = articles_of(outcome),
                      !.outcomes = Append(@, outcome)]
    ELSE IF is_rate_limit(outcome) /\ bulk.attempt < max_retries - 1
    THEN [bulk EXCEPT !.at = "sleep", !.outcomes = Append(@, outcome),
                      !.sleeps = Append(@, wait_time(bulk.attempt))]
    ELSE [bulk EXCEPT !.at = "returned", !.articles = 0,
                      !.outcomes = Append(@, outcome)]

BulkInit == AtRest /\ call = NoCall

\* _generate_category_articles is called: the first pass of the loop starts.
CallBulk ==
    /\ call = NoCall
    /\ call' = [op |-> "_generate_category_articles", at |-> "request",
                attempt |-> 0, outcomes |-> <<>>, sleeps |-> <<>>,
                articles |-> 0]
    /\ RunUnchanged

BulkAttempt ==
    /\ call.op = "_generate_category_articles"
    /\ call.at = "request"
    /\ \E outcome \in BulkOutcomes : outcome.bad <= outcome.items
          /\ call' = attempt_ends(call, outcome)
    /\ RunUnchanged

\* await asyncio.sleep(wait_time) returns; continue.
BulkSleep ==
    /\ call.op = "_generate_category_articles"
    /\ call.at = "sleep"
    /\ call' = [call EXCEPT !.at = "request", !.attempt = @ + 1]
    /\ RunUnchanged

BulkNext == CallBulk \/ BulkAttempt \/ BulkSleep

BulkSpec == BulkInit /\ [][BulkNext]_vars

\* C21: the bulk call makes at most 3 attempts; only rate-limit errors are
\* followed by another attempt, the delay doubling from one attempt to the
\* next; any other backend error ends the call by propagating to the caller
\* (the call has no "raised" end, so it would have to be one that is not
\* "returned").
C21_BulkRetryPolicy ==
    call.op = "_generate_category_articles" =>
        /\ Len(call.outcomes) <= max_retries
        /\ \A i \in 1..Len(call.sleeps) : call.outcomes[i].class = "rate_limit"
        /\ \A i \in 2..Len(call.sleeps) : call.sleeps[i] = 2 * call.sleeps[i - 1]
        /\ \A i \in 1..Len(call.outcomes) :
              call.outcomes[i].class \in {"backend_error", "not_configured"}
                  => call.at # "returned"

----------------------------------------------------------------------------
(* Knowledge graph: entity lists, nodes and links of generate_graph *)

MaxGraphTargets == 2
MaxExtra == 1
EntityCap == 12
LabelCap == 40

EntityTypes == <<"services", "products", "technologies", "audiences", "topics">>

\* The name of an entity type as it is written into a node id.
TypeText ==
    [services |-> <<"s", "e", "r", "v", "i", "c", "e", "s">>,
     products |-> <<"p", "r", "o", "d", "u", "c", "t", "s">>,
     technologies |-> <<"t", "e", "c", "h", "n", "o", "l", "o", "g", "i", "e", "s">>,
     audiences |-> <<"a", "u", "d", "i", "e", "n", "c", "e", "s">>,
     topics |-> <<"t", "o", "p", "i", "c", "s">>]

EmptyEntities ==
    [services |-> <<>>, products |-> <<>>, technologies |-> <<>>,
     audiences |-> <<>>, topics |-> <<>>]

\* netloc.replace('www.', ''): every occurrence is removed, from the left.
RECURSIVE remove_www(_)
remove_www(netloc) ==
    IF find(netloc, <<"w", "w", "w", ".">>, 0) < 0 THEN netloc
    ELSE Slice(netloc, 0, find(netloc, <<"w", "w", "w", ".">>, 0))
            \o remove_www(SliceFrom(netloc, find(netloc, <<"w", "w", "w", ".">>, 0) + 4))

\* [str(item)[:40] for item in entities[key][:12]]
clean_list(items) ==
    [i \in 1..Min(Len(items), EntityCap) |-> Take(items[i], LabelCap)]

\* extract_entities_for_domain given how its call of extract_json ended: the
\* cleaned lists, or the empty lists after any exception.  A key that is absent
\* or whose value is no list is given here as the empty list.
cleaned_entities(reply) ==
    IF reply.raised THEN EmptyEntities
    ELSE [services |-> clean_list(reply.entities.services),
          products |-> clean_list(reply.entities.products),
          technologies |-> clean_list(reply.entities.technologies),
          audiences |-> clean_list(reply.entities.audiences),
          topics |-> clean_list(reply.entities.topics)]

\* for entity in entity_list: if entity and entity not in all_entities[...]
RECURSIVE merge_list(_, _)
merge_list(merged, entity_list) ==
    IF entity_list = <<>> THEN merged
    ELSE IF entity_list[1] # <<>> /\ entity_list[1] \notin Range(merged)
    THEN merge_list(Append(merged, entity_list[1]), Tail(entity_list))
    ELSE merge_list(merged, Tail(entity_list))

\* Merge entities (avoid duplicates)
merge_entities(all_entities, entities) ==
    [services |-> merge_list(all_entities.services, entities.services),
     products |-> merge_list(all_entities.products, entities.products),
     technologies |-> merge_list(all_entities.technologies, entities.technologies),
     audiences |-> merge_list(all_entities.audiences, entities.audiences),
     topics |-> merge_list(all_entities.topics, entities.topics)]

\* all_entities of a domain: the cleaned lists of its URLs merged in order.
RECURSIVE domain_entities(_, _)
domain_entities(domain_data_list, all_entities) ==
    IF domain_data_list = <<>> THEN all_entities
    ELSE domain_entities(Tail(domain_data_list),
            merge_entities(all_entities, cleaned_entities(domain_data_list[1].reply)))

\* domain = parsed.netloc.replace('www.', '')
graph_domain(data) == remove_www(data.netloc)

\* The keys of domain_groups in insertion order.
RECURSIVE group_keys(_)
group_keys(sd) ==
    IF sd = <<>> THEN <<>>
    ELSE IF ~IsSuccess(sd[Len(sd)])
            \/ graph_domain(sd[Len(sd)]) \in Range(group_keys(SubSeq(sd, 1, Len(sd) - 1)))
    THEN group_keys(SubSeq(sd, 1, Len(sd) - 1))
    ELSE Append(group_keys(SubSeq(sd, 1, Len(sd) - 1)), graph_domain(sd[Len(sd)]))

\* domain_groups[domain]
group_of(sd, domain) ==
    SelectSeq(sd, LAMBDA data : IsSuccess(data) /\ graph_domain(data) = domain)

\* f"domain_{domain}"
domain_id(domain) == <<"d", "o", "m", "a", "i", "n", "_">> \o domain

\* f"{domain}_{entity_type}_{entity}"
node_id(domain, entity_type, entity) ==
    domain \o <<"_">> \o TypeText[entity_type] \o <<"_">> \o entity

EmptyGraph == [nodes |-> <<>>, links |-> <<>>, node_ids |-> {}]

\* The domain node is appended without a look at node_ids.
add_domain_node(g, domain) ==
    [nodes |-> Append(g.nodes, [id |-> domain_id(domain), label |-> domain,
                                type |-> "domain"]),
     links |-> g.links,
     node_ids |-> g.node_ids \cup {domain_id(domain)}]

\* The entities of a list that get a node: the non-empty ones whose id is not
\* in node_ids when their turn comes, that is neither there before the list is
\* walked nor put there by an equal entity earlier in the list.
fresh_entities(node_ids, domain, entity_type, entity_list) ==
    Pick(entity_list,
         {i \in 1..Len(entity_list) :
            /\ entity_list[i] # <<>>
            /\ node_id(domain, entity_type, entity_list[i]) \notin node_ids
            /\ \A j \in 1..(i - 1) : entity_list[j] # entity_list[i]})

\* if node_id not in node_ids: the nodes of the fresh entities, each with its
\* link from the domain node.
add_entity_list(g, domain, entity_type, fresh) ==
    [nodes |-> g.nodes \o [i \in 1..Len(fresh) |->
                              [id |-> node_id(domain, entity_type, fresh[i]),
                               label |-> fresh[i], type |-> entity_type]],
     links |-> g.links \o [i \in 1..Len(fresh) |->
                              [source |-> domain_id(domain),
                               target |-> node_id(domain, entity_type, fresh[i]),
                               label |-> entity_type]],
     node_ids |-> g.node_ids
                    \cup {node_id(domain, entity_type, fresh[i]) : i \in 1..Len(fresh)}]

\* for entity_type, entity_list in all_entities.items()
RECURSIVE add_entity_nodes(_, _, _, _)
add_entity_nodes(g, domain, all_entities, t) ==
    IF t > Len(EntityTypes) THEN g
    ELSE add_entity_nodes(
            add_entity_list(g, domain, EntityTypes[t],
                            fresh_entities(g.node_ids, domain, EntityTypes[t],
                                           all_entities[EntityTypes[t]])),
            domain, all_entities, t + 1)

\* The links of one label among the first entities of two types: both ends
\* have to be in node_ids.
pair_links(node_ids, domain, from_type, from_list, to_type, to_list, label) ==
    LET pairs == {p \in (1..Len(from_list)) \X (1..Len(to_list)) :
                    /\ node_id(domain, from_type, from_list[p[1]]) \in node_ids
                    /\ node_id(domain, to_type, to_list[p[2]]) \in node_ids}
        ordered == SelectSeq(
            [k \in 1..(Len(from_list) * Len(to_list)) |->
                <<((k - 1) \div Len(to_list)) + 1, ((k - 1) % Len(to_list)) + 1>>],
            LAMBDA p : p \in pairs)
    IN  [k \in 1..Len(ordered) |->
            [source |-> node_id(domain, from_type, from_list[ordered[k][1]]),
             target |-> node_id(domain, to_type, to_list[ordered[k][2]]),
             label |-> label]]

\* Connect services to products, then technologies to services.
add_connections(g, domain, all_entities) ==
    [nodes |-> g.nodes,
     links |-> g.links
        \o pair_links(g.node_ids, domain, "services", Take(all_entities.services, 3),
                      "products", Take(all_entities.products, 2), "offers")
        \o pair_links(g.node_ids, domain, "technologies",
                      Take(all_entities.technologies, 3),
                      "services", Take(all_entities.services, 2), "powers"),
     node_ids |-> g.node_ids]

\* One pass of the loop over domain_groups.items().
add_domain(g, domain, all_entities) ==
    add_connections(add_entity_nodes(add_domain_node(g, domain), domain,
                                     all_entities, 1),
                    domain, all_entities)

RECURSIVE add_domains(_, _, _)
add_domains(g, sd, domains) ==
    IF domains = <<>> THEN g
    ELSE add_domains(add_domain(g, domains[1],
                                domain_entities(group_of(sd, domains[1]), EmptyEntities)),
                     sd, Tail(domains))

\* generate_graph with the entity lists it merges: sd[i].reply is how the
\* entity request of target i ends.
generate_graph_data(sd) == add_domains(EmptyGraph, sd, group_keys(sd))

\* all_entities of every domain at the end of its pass.
all_entities_of(sd) ==
    [k \in 1..Len(group_keys(sd)) |->
        domain_entities(group_of(sd, group_keys(sd)[k]), EmptyEntities)]

Alphabet ==
    <<"a", "b", "c", "d", "e", "f", "g", "h", "i", "j", "k", "l", "m", "n", "o", "p">>

\* A list of distinct labels of one family, one longer than the cap allows.
family(letter) == [i \in 1..(EntityCap + MaxExtra) |-> <<letter, Alphabet[i]>>]

LongLabel == Repeat("x", LabelCap + 1)

\* What the entity request of a target yields.
EntityReplies ==
    {[raised |-> TRUE, entities |-> EmptyEntities],
     [raised |-> FALSE,
      entities |-> [EmptyEntities EXCEPT !.services = << <<"s">> >>,
                                         !.products = << <<"p">> >>,
                                         !.technologies = << <<"t">> >>,
                                         !.topics = << <<"e">> >>]],
     [raised |-> FALSE, entities |-> [EmptyEntities EXCEPT !.services = family("L")]],
     [raised |-> FALSE, entities |-> [EmptyEntities EXCEPT !.services = family("M")]],
     [raised |-> FALSE,
      entities |-> [EmptyEntities EXCEPT
                      !.topics = <<LongLabel, Take(LongLabel, LabelCap), <<>>,
                                   <<"e">>, <<"e">>, <<"E">> >>]]}

\* The hosts of the targets: two names of one site, and two single-label
\* hosts.
Netlocs ==
    {<<"a", ".", "i", "o">>, <<"w", "w", "w", ".", "a", ".", "i", "o">>,
     <<"d", "o", "m", "a", "i", "n">>, <<"t", "o", "p", "i", "c", "s", "_", "e">>}

\* The entries of scraped_data: a failed target gets no entity request.
GraphTargets ==
    {[netloc |-> n, status |-> "success", reply |-> r] :
        n \in Netlocs, r \in EntityReplies}
    \cup {[netloc |-> n, status |-> "error",
           reply |-> [raised |-> TRUE, entities |-> EmptyEntities]] : n \in Netlocs}

GraphInit == AtRest /\ call = NoCall

GenerateGraphData ==
    /\ call = NoCall
    /\ \E n \in 1..MaxGraphTargets : \E sd \in [1..n -> GraphTargets] :
          call' = [op |-> "generate_graph", scraped_data |-> sd,
                   all_entities |-> all_entities_of(sd),
                   graph |-> generate_graph_data(sd)]
    /\ RunUnchanged

GraphNext == GenerateGraphData

GraphSpec == GraphInit /\ [][GraphNext]_vars

\* The labels of the entity nodes of a category: the nodes of that type
\* linked from the domain node.
CategoryLabels(g, domain, entity_type) ==
    SelectSeq(g.nodes, LAMBDA node :
        /\ node.type = entity_type
        /\ \E k \in 1..Len(g.links) :
              /\ g.links[k].source = domain_id(domain)
              /\ g.links[k].target = node.id
              /\ g.links[k].label = entity_type)

NoDuplicates(s) == \A i, j \in 1..Len(s) : s[i] = s[j] => i = j

\* C22: after knowledge-graph generation every entity category of every
\* domain holds no label twice, at most 12 entries, and labels of at most 40
\* characters, also when the lists of several URLs of a domain were merged.
C22_EntityListsBounded ==
    call.op = "generate_graph" =>
        \A k \in 1..Len(call.all_entities) : \A t \in Range(EntityTypes) :
            /\ NoDuplicates(call.all_entities[k][t])
            /\ Len(call.all_entities[k][t]) <= EntityCap
            /\ \A i \in 1..Len(call.all_entities[k][t]) :
                  Len(call.all_entities[k][t][i]) <= LabelCap

----------------------------------------------------------------------------
(* Sitemap discovery: get_priority_pages, fetch_sitemap_urls, _parse_sitemap *)

\* The nested calls the interpreter allows before it raises RecursionError
\* (1000 frames by default).
RecursionLimit == 3
NumLocations == 6
ChildLimit == 5
SitemapUrlCap == 50

\* The page the analysis was asked for.
BaseUrl == 0

\* The URLs listed by the sitemaps: what the keyword tests of
\* get_priority_pages make of each.  The skip test comes first.
PageClass == <<"priority", "other", "skip", "other">>

Pages == {BaseUrl} \cup (1..Len(PageClass))

page_class(url) == IF url = BaseUrl THEN "other" ELSE PageClass[url]

\* Sitemap URLs: 1..NumLocations are the common locations under the site's
\* root, in the order fetch_sitemap_urls tries them; the others are reached
\* from an index only.
ChildA == NumLocations + 1
ChildB == NumLocations + 2
SitemapIds == 1..ChildB

Missing == [kind |-> "not_found", locs |-> <<>>]
UrlSet(locs) == [kind |-> "urlset", locs |-> locs]
Index(locs) == [kind |-> "index", locs |-> locs]

\* What a GET of a sitemap URL gives: a status other than 200, an exception
\* (timeout or any other), a body that is no XML, a sitemap index with its
\* child locations, or a URL set with its page locations.
FirstDocs ==
    {Missing, [kind |-> "timeout", locs |-> <<>>],
     [kind |-> "parse_error", locs |-> <<>>],
     UrlSet(<<>>), UrlSet(<<1, 2, 3>>), UrlSet(<<BaseUrl, 2>>),
     Index(<<1>>), Index(<<1, 1>>), Index(<<ChildA>>), Index(<<ChildA, ChildB>>)}

SecondDocs == {Missing, UrlSet(<<4, 1>>)}

ChildADocs == {Missing, UrlSet(<<1>>), Index(<<1>>), Index(<<ChildB>>)}

ChildBDocs == {UrlSet(<<2, 4>>), Index(<<ChildA>>), [kind |-> "error", locs |-> <<>>]}

\* The sites: every common location but the first two answers 404.
Sites ==
    {[id \in SitemapIds |->
        IF id = 1 THEN first ELSE IF id = 2 THEN second
        ELSE IF id = ChildA THEN a ELSE IF id = ChildB THEN b ELSE Missing] :
        first \in FirstDocs, second \in SecondDocs, a \in ChildADocs, b \in ChildBDocs}

\* A call of _parse_sitemap: fetched tells whether its GET was made, kids are
\* the child sitemaps left to parse, urls is its local list.
Frame(sitemap_url) ==
    [sitemap_url |-> sitemap_url, fetched |-> FALSE, kids |-> <<>>, urls |-> <<>>]

\* list(dict.fromkeys(sitemap_urls))
RECURSIVE unique(_)
unique(s) ==
    IF s = <<>> THEN <<>>
    ELSE IF s[Len(s)] \in Range(SubSeq(s, 1, Len(s) - 1))
    THEN unique(SubSeq(s, 1, Len(s) - 1))
    ELSE Append(unique(SubSeq(s, 1, Len(s) - 1)), s[Len(s)])

\* if base_url not in selected_urls: selected_urls.insert(0, base_url); then
\* the cut to max_pages.
with_base(selected_urls, max_pages) ==
    IF BaseUrl \in Range(selected_urls) THEN Take(selected_urls, max_pages)
    ELSE Take(<<BaseUrl>> \o selected_urls, max_pages)

\* priority_urls[:max_pages] filled up with other_urls.
select_pages(priority_urls, other_urls, max_pages) ==
    with_base(Take(priority_urls, max_pages)
                \o Take(other_urls, max_pages - Len(Take(priority_urls, max_pages))),
              max_pages)

\* get_priority_pages after fetch_sitemap_urls returned all_urls.
priority_pages(all_urls, max_pages) ==
    IF all_urls = <<>> THEN <<BaseUrl>>
    ELSE select_pages(SelectSeq(all_urls, LAMBDA url : page_class(url) = "priority"),
                      SelectSeq(all_urls, LAMBDA url : page_class(url) = "other"),
                      max_pages)

\* fetch_sitemap_urls once the parse of a location returned urls: the loop goes
\* on to the next location, or the function returns and get_priority_pages
\* with it.
location_done(c, sitemap_urls) ==
    IF c.location = NumLocations \/ Len(sitemap_urls) >= SitemapUrlCap
    THEN [c EXCEPT !.at = "returned", !.stack = <<>>,
                   !.sitemap_urls = sitemap_urls,
                   !.result = priority_pages(Take(unique(sitemap_urls), SitemapUrlCap),
                                             c.max_pages)]
    ELSE [c EXCEPT !.location = @ + 1, !.stack = << Frame(c.location + 1) >>,
                   !.sitemap_urls = sitemap_urls]

\* The innermost call of _parse_sitemap returns urls: to the loop of its
\* caller (urls.extend(child_urls)), or to fetch_sitemap_urls.
return_urls(c, found) ==
    IF Len(c.stack) = 1 THEN location_done(c, c.sitemap_urls \o found)
    ELSE [c EXCEPT !.stack = [SubSeq(c.stack, 1, Len(c.stack) - 1)
                                EXCEPT ![Len(c.stack) - 1].urls = @ \o found]]

\* The body of _parse_sitemap from its GET to the first await after it.  A call
\* nested deeper than the interpreter allows raises RecursionError inside the
\* try block before its GET; except Exception returns [].
after_get(c, doc) ==
    IF Len(c.stack) > RecursionLimit THEN return_urls(c, <<>>)
    ELSE IF doc.kind = "urlset"
    THEN return_urls([c EXCEPT !.fetches = Append(@, c.stack[Len(c.stack)].sitemap_url)],
                     doc.locs)
    ELSE IF doc.kind = "index" /\ doc.locs # <<>>
    THEN [c EXCEPT !.fetches = Append(@, c.stack[Len(c.stack)].sitemap_url),
                   !.stack[Len(c.stack)].fetched = TRUE,
                   !.stack[Len(c.stack)].kids = Take(doc.locs, ChildLimit)]
    ELSE return_urls([c EXCEPT !.fetches = Append(@, c.stack[Len(c.stack)].sitemap_url)],
                     <<>>)

SitemapInit == AtRest /\ call = NoCall

\* get_priority_pages(base_url, max_pages) is called; fetch_sitemap_urls
\* starts with the first location.
GetPriorityPages ==
    /\ call = NoCall
    /\ \E site \in Sites : \E max_pages \in {1, 5} :
          call' = [op |-> "get_priority_pages", site |-> site,
                   max_pages |-> max_pages, location |-> 1,
                   stack |-> << Frame(1) >>, sitemap_urls |-> <<>>,
                   fetches |-> <<>>, at |-> "parsing", result |-> <<>>]
    /\ RunUnchanged

\* The innermost call of _parse_sitemap makes its GET.
FetchSitemap ==
    /\ call.op = "get_priority_pages" /\ call.at = "parsing"
    /\ ~call.stack[Len(call.stack)].fetched
    /\ call' = after_get(call, call.site[call.stack[Len(call.stack)].sitemap_url])
    /\ RunUnchanged

\* child_urls = await self._parse_sitemap(child_url)
ParseChild ==
    /\ call.op = "get_priority_pages" /\ call.at = "parsing"
    /\ call.stack[Len(call.stack)].fetched
    /\ call.stack[Len(call.stack)].kids # <<>>
    /\ call' = [call EXCEPT
                  !.stack = Append([@ EXCEPT ![Len(@)].kids = Tail(@)],
                                   Frame(call.stack[Len(call.stack)].kids[1]))]
    /\ RunUnchanged

\* The loop over the child sitemaps is over: return urls.
ReturnFromIndex ==
    /\ call.op = "get_priority_pages" /\ call.at = "parsing"
    /\ call.stack[Len(call.stack)].fetched
    /\ call.stack[Len(call.stack)].kids = <<>>
    /\ call' = return_urls(call, call.stack[Len(call.stack)].urls)
    /\ RunUnchanged

SitemapNext == GetPriorityPages \/ FetchSitemap \/ ParseChild \/ ReturnFromIndex

SitemapSpec == SitemapInit /\ [][SitemapNext]_vars

\* No GET of the call gave a sitemap: each ended with a status other than 200,
\* an exception or a parse error.
EveryFetchFailed ==
    \A i \in 1..Len(call.fetches) :
        call.site[call.fetches[i]].kind \notin {"urlset", "index"}

\* C23: get_priority_pages never raises, and when the sitemap fetches or
\* parses fail it returns the empty list.
C23_FailureGivesEmptyList ==
    (call.op = "get_priority_pages" /\ call.at = "returned" /\ EveryFetchFailed)
        => call.result = <<>>

\* The sitemap URLs of the calls of _parse_sitemap in progress, outermost
\* first.
ParseChain == [i \in 1..Len(call.stack) |-> call.stack[i].sitemap_url]

SelectingStrategy == call.result.attempts[Len(call.result.attempts)].strategy

\* C24: for an unfenced response that is a JSON object, the candidate selected
\* is the outermost {...} and never an inner [...]: an object holding an array
\* of objects is returned as the whole object.
C24_OutermostObjectSelected ==
    (call.op = "extract_json" /\ call.shape = "clean"
        /\ call.doc \in ObjectDocs /\ call.cut = Len(call.doc))
        => /\ ~call.result.raised
           /\ SelectingStrategy # 3
           /\ call.result.value = json_loads(call.doc).value

----------------------------------------------------------------------------
(* Truncation repair and partial extraction applied to truncated candidates *)

\* The candidates: a document cut after some character.
TruncatedCandidates ==
    UNION {{Take(doc, cut) : cut \in 0..Len(doc)} : doc \in Docs}

RepairInit == AtRest /\ call = NoCall

\* _repair_truncated_json(json_str)
RepairTruncatedJson ==
    /\ call = NoCall
    /\ \E json_str \in TruncatedCandidates :
          call' = [op |-> "_repair_truncated_json", json_str |-> json_str,
                   result |-> _repair_truncated_json(json_str)]
    /\ RunUnchanged

\* _parse_json_with_repair(json_str): cleaned is the candidate its repair and
\* its partial extraction are given.
ParseJsonWithRepair ==
    /\ call = NoCall
    /\ \E json_str \in TruncatedCandidates :
          call' = [op |-> "_parse_json_with_repair", json_str |-> json_str,
                   cleaned |-> _clean_json_string(json_str),
                   result |-> _parse_json_with_repair(json_str)]
    /\ RunUnchanged

RepairNext == RepairTruncatedJson \/ ParseJsonWithRepair

RepairSpec == RepairInit /\ [][RepairNext]_vars

\* One character of a scan that follows the string literals: open lists the
\* structures open outside string literals, in the order of their opening;
\* nested is FALSE once a closer did not match the innermost open structure.
nesting_step(st, char) ==
    IF st.escape_next THEN [st EXCEPT !.escape_next = FALSE]
    ELSE IF st.in_string
    THEN IF char = "\\" THEN [st EXCEPT !.escape_next = TRUE]
         ELSE IF char = "\"" THEN [st EXCEPT !.in_string = FALSE]
         ELSE st
    ELSE IF char = "\"" THEN [st EXCEPT !.in_string = TRUE]
    ELSE IF char \in {"{", "["} THEN [st EXCEPT !.open = Append(@, char)]
    ELSE IF char \in {"}", "]"}
    THEN IF st.open # <<>>
            /\ st.open[Len(st.open)] = (IF char = "}" THEN "{" ELSE "[")
         THEN [st EXCEPT !.open = SubSeq(@, 1, Len(@) - 1)]
         ELSE [st EXCEPT !.nested = FALSE]
    ELSE st

RECURSIVE nesting_scan(_, _)
nesting_scan(s, n) ==
    IF n = 0
    THEN [open |-> <<>>, in_string |-> FALSE, escape_next |-> FALSE,
          nested |-> TRUE]
    ELSE nesting_step(nesting_scan(s, n - 1), s[n])

\* The brackets and braces of s outside string literals are balanced and
\* properly nested.
Balanced(s) ==
    /\ nesting_scan(s, Len(s)).nested
    /\ nesting_scan(s, Len(s)).open = <<>>

\* One closer per structure of open, in the reverse order of their opening.
Closers(open) ==
    [i \in 1..Len(open) |->
        IF open[Len(open) + 1 - i] = "{" THEN "}" ELSE "]"]

\* The structures of s are only unclosed: s with a closer for each of its open
\* structures is a JSON text, and s itself is not.
OnlyUnclosed(s) ==
    /\ nesting_scan(s, Len(s)).open # <<>>
    /\ json_loads(s \o Closers(nesting_scan(s, Len(s)).open)).ok

\* C25: for a candidate whose structures are only unclosed, truncation repair
\* returns a text whose brackets and braces outside string literals are
\* balanced and properly nested; brackets inside string literals are not
\* counted.
C25_RepairBalances ==
    (call.op = "_repair_truncated_json" /\ OnlyUnclosed(call.json_str))
        => Balanced(call.result)

\* No top-level object of the candidate closes.
NoCompleteItem(json_str) ==
    partial_scan(json_str, Len(json_str)).complete_items = <<>>

\* C26: when partial extraction runs on a candidate that starts an array and
\* in which no top-level object closes, the parse succeeds with the empty
\* array.
C26_NoCompleteItemGivesEmptyArray ==
    (call.op = "_parse_json_with_repair" /\ call.result.stage = "partial"
        /\ starts_array(strip(call.cleaned)) /\ NoCompleteItem(call.cleaned))
        => /\ call.result.ok
           /\ call.result.value = json_loads(<<"[", "]">>).value

----------------------------------------------------------------------------
(* Topical map: validation of the taxonomy *)

MaxNodes == 2

TaxonomyNames == {"Main", "Sub", "Topic"}

\* The children arrays of the nodes the backend returns.
ChildLists == {<<>>, <<"Main">>, <<"Sub">>, <<"Topic">>, <<"Sub", "Topic">>}

\* TaxonomyNode(**node): the fields the validation reads.
TaxonomyNodes ==
    [name : TaxonomyNames, level : 1..3, children : ChildLists]

\* result['taxonomy']
Taxonomies == UNION {[1..n -> TaxonomyNodes] : n \in 0..MaxNodes}

\* First pass: the names of the level-1 and level-2 nodes without children.
nodes_to_remove(taxonomy) ==
    {taxonomy[i].name : i \in {j \in 1..Len(taxonomy) :
                                  /\ taxonomy[j].level \in {1, 2}
                                  /\ taxonomy[j].children = <<>>}}

\* Second pass, for a node that is kept: the references to removed nodes are
\* taken out of its children.
without_removed(node, removed) ==
    [node EXCEPT !.children = SelectSeq(@, LAMBDA child : child \notin removed)]

\* Second pass: validated_taxonomy.
validated_taxonomy(taxonomy, removed) ==
    [i \in 1..Len(SelectSeq(taxonomy, LAMBDA node : node.name \notin removed)) |->
        without_removed(SelectSeq(taxonomy, LAMBDA node : node.name \notin removed)[i],
                        removed)]

\* taxonomy after the validation: None when nothing was returned or nothing is
\* left.
validate_taxonomy(taxonomy) ==
    [none |-> validated_taxonomy(taxonomy, nodes_to_remove(taxonomy)) = <<>>,
     nodes |-> validated_taxonomy(taxonomy, nodes_to_remove(taxonomy))]

TaxonomyInit == AtRest /\ call = NoCall

\* The taxonomy part of generate_topical_map_with_ai.
ValidateTaxonomy ==
    /\ call = NoCall
    /\ \E taxonomy \in Taxonomies :
          call' = [op |-> "validate_taxonomy", taxonomy |-> taxonomy,
                   nodes_to_remove |-> nodes_to_remove(taxonomy),
                   result |-> validate_taxonomy(taxonomy)]
    /\ RunUnchanged

TaxonomyNext == ValidateTaxonomy

TaxonomySpec == TaxonomyInit /\ [][TaxonomyNext]_vars

NodeIdsOf(g) == [i \in 1..Len(g.nodes) |-> g.nodes[i].id]

\* Both endpoints of every link are ids of nodes of the graph.
LinksAttached(g) ==
    \A k \in 1..Len(g.links) :
        /\ g.links[k].source \in Range(NodeIdsOf(g))
        /\ g.links[k].target \in Range(NodeIdsOf(g))

\* The distinct domains among the succeeded targets.
SucceededDomains(sd) ==
    {graph_domain(sd[i]) : i \in {j \in 1..Len(sd) : IsSuccess(sd[j])}}

\* Exactly one domain node for each of the domains, and no other domain node.
OneNodePerDomain(g, domains) ==
    /\ \A d \in domains :
          Cardinality({i \in 1..Len(g.nodes) :
                          g.nodes[i].type = "domain" /\ g.nodes[i].label = d}) = 1
    /\ \A i \in 1..Len(g.nodes) :
          g.nodes[i].type = "domain" => g.nodes[i].label \in domains

\* Every entity node is the target of exactly one link that comes from a
\* domain node and carries the type of the entity.
OneDomainLink(g) ==
    \A i \in 1..Len(g.nodes) :
        g.nodes[i].type # "domain"
            => Cardinality({k \in 1..Len(g.links) :
                   /\ g.links[k].target = g.nodes[i].id
                   /\ g.links[k].label = g.nodes[i].type
                   /\ \E j \in 1..Len(g.nodes) :
                         /\ g.nodes[j].type = "domain"
                         /\ g.nodes[j].id = g.links[k].source}) = 1

\* C30: in every generated knowledge graph the node ids are unique, both
\* endpoints of every link are ids of nodes of the graph, there is exactly one
\* domain node per distinct domain among the succeeded targets, and every
\* entity node has exactly one link coming from its domain node.
C30_GraphWellFormed ==
    call.op = "generate_graph"
        => /\ NoDuplicates(NodeIdsOf(call.graph))
           /\ LinksAttached(call.graph)
           /\ OneNodePerDomain(call.graph, SucceededDomains(call.scraped_data))
           /\ OneDomainLink(call.graph)

----------------------------------------------------------------------------
(* Progress streams of a finished run *)

\* The event loop schedules the run and every open event_generator: a stream
\* that is connected polls again after its sleep of half a second, and the
\* finally block of a stream that ended runs its cleanup after the grace
\* delay.  Connecting and disconnecting are up to the clients.
StreamSpec ==
    /\ Spec
    /\ WF_vars(Run)
    /\ \A o \in Observers : WF_vars(Poll(o)) /\ WF_vars(Cleanup(o))

\* The progress state shows a terminal status.
TerminalProgress ==
    progress # <<>> /\ progress[1].status \in {"complete", "failed"}

\* C28: once the run has reached a terminal progress status, every stream
\* that is connected and stays connected receives the terminal event and
\* closes, whatever the other streams of the analysis do: no stream is left
\* polling for ever.
C28_StreamsClose ==
    \A o \in Observers :
        (TerminalProgress /\ obs[o] = "streaming") ~> (obs[o] # "streaming")

====
